---------------------------- MODULE Spec2Model ----------------------------
(***************************************************************************)
(* Model of the flag-polling command shell (src/unnamed/part_000): the     *)
(* command dispatcher, the callback and ticker tables, the four event      *)
(* flags set by the interrupt routines and the main loop that polls them.  *)
(*                                                                         *)
(* A C string is a sequence of one-character strings; a char* that may be  *)
(* NULL is a record [null, s].                                             *)
(***************************************************************************)
EXTENDS Integers, Sequences, FiniteSets, TLC

(***************************************************************************)
(* Program constants.                                                      *)
(***************************************************************************)
RX_BUF_SZ == 128

MAX_CMD_LEN == 128
MAX_PAYLOAD == 64
MAX_CB == 3
MAX_TICKERS == 16
MAX_TICKER_PAYLOAD == 48
SCRIPT_LINES == 64
SCRIPT_LINE_SIZE == 128
NUM_REGISTERS == 32

(***************************************************************************)
(* Bounds of the model.                                                    *)
(***************************************************************************)
\* largest repeat count a command of the input sets arms an entry with
MaxCount == 2
\* nested dispatches (payload -> script -> if ...) followed before the
\* model records a stack overflow
MaxDepth == 3
\* largest initial delay, in ticks, of the tickers of the input sets
MaxDelay == 2
\* largest period, in ticks, of the tickers of the input sets
MaxPeriod == 2
\* the keys that edit a line or end it are pressed while the line holds at
\* most this many characters, or is full
MaxEdit == 1
\* an arithmetic command is typed only while register 1 holds a value of
\* at most this magnitude
MaxReg == 10
\* unknown commands typed at the UART: no such line is typed once the
\* counter of unknown commands has reached this bound
MaxErrors == 1
\* interrupts of the HWK4 variant: none occurs once this many have occurred
MaxIrqs == 5

(***************************************************************************)
(* 32-bit integers.  An int32_t is the integer it denotes; a uint32_t is   *)
(* held as the int32_t with the same 32 bits (0xFFFFFFFF is -1), so that   *)
(* every value of the model lies in INT_MIN .. INT_MAX.  The operations    *)
(* wrap modulo 2^32 as the Cortex-M4 instructions do and never leave that  *)
(* range in an intermediate result.                                        *)
(***************************************************************************)
INT_MAX == 2147483647

INT_MIN == 0 - INT_MAX - 1

\* x + y
AddI32(x, y) ==
  IF y >= 0 /\ x > INT_MAX - y THEN ((x - INT_MAX) - 1) + ((y - INT_MAX) - 1)
  ELSE IF y < 0 /\ x < INT_MIN - y THEN ((x + INT_MAX) + 1) + ((y + INT_MAX) + 1)
  ELSE x + y

\* -x
NegI32(x) == IF x = INT_MIN THEN INT_MIN ELSE 0 - x

\* x - y
SubI32(x, y) == AddI32(x, NegI32(y))

\* x * y for y >= 0, by doubling: twice x * (y \div 2), and x more for an
\* odd y
RECURSIVE MulNat(_, _)
MulNat(x, y) ==
  IF y = 0 \/ x = 0 THEN 0
  ELSE CHOOSE r \in {AddI32(AddI32(h, h), IF y % 2 = 1 THEN x ELSE 0) :
                       h \in {MulNat(x, y \div 2)}} : TRUE

\* x * y
MulI32(x, y) ==
  IF y = INT_MIN THEN (IF x % 2 = 1 THEN INT_MIN ELSE 0)
  ELSE IF y < 0 THEN NegI32(MulNat(x, 0 - y))
  ELSE MulNat(x, y)

\* x / y of C for y > 0: the quotient truncated toward zero
DivPos(x, y) ==
  LET q == x \div y IN IF x < 0 /\ x % y # 0 THEN q + 1 ELSE q

\* x / y, y # 0 (INT_MIN / -1 is INT_MIN, the result of SDIV)
DivI32(x, y) ==
  IF y > 0 THEN DivPos(x, y)
  ELSE IF y = INT_MIN THEN (IF x = INT_MIN THEN 1 ELSE 0)
  ELSE NegI32(DivPos(x, 0 - y))

\* x % y, y # 0
RemI32(x, y) == SubI32(x, MulI32(DivI32(x, y), y))

\* bits 0 .. 30 of a 32-bit pattern
Low31(x) == IF x >= 0 THEN x ELSE (x + INT_MAX) + 1

\* a bitwise operation on bits 0 .. n-1 of x and y; f is the truth table of
\* the operation, the set of the pairs of bits that give 1
RECURSIVE Bitwise(_, _, _, _)
Bitwise(x, y, f, n) ==
  IF n = 0 THEN 0
  ELSE (IF <<x % 2, y % 2>> \in f THEN 1 ELSE 0)
         + 2 * Bitwise(x \div 2, y \div 2, f, n - 1)

Bits32(x, y, f) ==
  LET lo == Bitwise(Low31(x), Low31(y), f, 31)
      sx == IF x < 0 THEN 1 ELSE 0
      sy == IF y < 0 THEN 1 ELSE 0
  IN IF <<sx, sy>> \in f THEN (lo - INT_MAX) - 1 ELSE lo

BitAnd(x, y) == Bits32(x, y, {<<1, 1>>})

BitOr(x, y) == Bits32(x, y, {<<1, 1>>, <<1, 0>>, <<0, 1>>})

BitXor(x, y) == Bits32(x, y, {<<1, 0>>, <<0, 1>>})

\* ~x
BitNot(x) == (0 - 1) - x

(***************************************************************************)
(* <ctype.h> and <stdlib.h>.                                               *)
(***************************************************************************)
isspace(c) == c \in {" ", "\t", "\n", "\r", "\f"}

isdigit(c) == c \in {"0", "1", "2", "3", "4", "5", "6", "7", "8", "9"}

DigitVal(c) ==
  CASE c = "0" -> 0 [] c = "1" -> 1 [] c = "2" -> 2 [] c = "3" -> 3
    [] c = "4" -> 4 [] c = "5" -> 5 [] c = "6" -> 6 [] c = "7" -> 7
    [] c = "8" -> 8 [] c = "9" -> 9

\* s without its first n characters (pointer arithmetic s + n)
Drop(s, n) == SubSeq(s, n + 1, Len(s))

\* the first n characters of s, or all of s when it is shorter
Take(s, n) == SubSeq(s, 1, IF n < Len(s) THEN n ELSE Len(s))

\* while(*args == ' ') args++;
RECURSIVE SkipSpaces(_)
SkipSpaces(s) == IF s # <<>> /\ Head(s) = " " THEN SkipSpaces(Tail(s)) ELSE s

\* while(*args && !isspace(*args)) args++;
RECURSIVE SkipToSpace(_)
SkipToSpace(s) ==
  IF s # <<>> /\ ~isspace(Head(s)) THEN SkipToSpace(Tail(s)) ELSE s

\* while(*args && *args != ' ') args++;
RECURSIVE SkipToBlank(_)
SkipToBlank(s) == IF s # <<>> /\ Head(s) # " " THEN SkipToBlank(Tail(s)) ELSE s

\* while(isdigit(*args)) args++;
RECURSIVE SkipDigits(_)
SkipDigits(s) == IF s # <<>> /\ isdigit(Head(s)) THEN SkipDigits(Tail(s)) ELSE s

\* the isspace() run that atoi and strtol skip first
RECURSIVE SkipWhite(_)
SkipWhite(s) == IF s # <<>> /\ isspace(Head(s)) THEN SkipWhite(Tail(s)) ELSE s

\* the value of c as a digit of a base up to 16, or 99 when it is no digit
DigitOf(c) ==
  IF isdigit(c) THEN DigitVal(c)
  ELSE IF c \in {"a", "A"} THEN 10
  ELSE IF c \in {"b", "B"} THEN 11
  ELSE IF c \in {"c", "C"} THEN 12
  ELSE IF c \in {"d", "D"} THEN 13
  ELSE IF c \in {"e", "E"} THEN 14
  ELSE IF c \in {"f", "F"} THEN 15
  ELSE 99

\* the digits of the given base at the start of s: [n, val, over, rest], n
\* the number of digits, val minus their value (the magnitude of INT_MIN
\* is no int32_t), over whether the value is beyond 2^31
RECURSIVE BaseDigits(_, _, _, _, _)
BaseDigits(s, base, n, acc, over) ==
  IF s # <<>> /\ DigitOf(Head(s)) < base
    THEN LET dg == DigitOf(Head(s))
             fits == ~over /\ acc >= ((INT_MIN + dg) + (base - 1)) \div base
         IN BaseDigits(Tail(s), base, n + 1,
                       IF fits THEN acc * base - dg ELSE INT_MIN, ~fits)
    ELSE [n |-> n, val |-> acc, over |-> over, rest |-> s]

\* v bound to the name of the operator's parameter: a local variable of the
\* code, evaluated once
With(v, F(_)) == F(v)

\* the radix strtol works in: base 0 takes it from the prefix
Radix(u, base, hex0x) ==
  IF base = 0
    THEN (IF hex0x THEN 16 ELSE IF u # <<>> /\ Head(u) = "0" THEN 8 ELSE 10)
    ELSE base

\* whether u starts with 0x and a hexadecimal digit
HexPrefix(u) ==
  Len(u) >= 3 /\ u[1] = "0" /\ u[2] \in {"x", "X"} /\ DigitOf(u[3]) < 16

\* the scan of strtol: [ok, neg, val, over, rest]; with no digits, ok is
\* FALSE and rest is the whole of s (endptr = nptr)
StrToNum(s, base) ==
  With(SkipWhite(s), LAMBDA t :
  With(IF t # <<>> /\ Head(t) \in {"-", "+"} THEN Tail(t) ELSE t, LAMBDA u :
  With(HexPrefix(u), LAMBDA hex0x :
  With(Radix(u, base, hex0x), LAMBDA b :
  With(BaseDigits(IF b = 16 /\ hex0x THEN Drop(u, 2) ELSE u, b, 0, 0, FALSE),
       LAMBDA r :
    IF r.n = 0
      THEN [ok |-> FALSE, neg |-> FALSE, val |-> 0, over |-> FALSE, rest |-> s]
      ELSE [ok |-> TRUE, neg |-> t # <<>> /\ Head(t) = "-", val |-> r.val,
            over |-> r.over, rest |-> r.rest])))))

\* strtol with a 32-bit long: [val, rest], the value clamped to
\* LONG_MIN .. LONG_MAX
strtol(s, base) ==
  With(StrToNum(s, base), LAMBDA r :
    [val |-> IF r.neg THEN r.val
             ELSE IF r.val = INT_MIN THEN INT_MAX ELSE 0 - r.val,
     rest |-> r.rest])

\* the digits of the given base at the start of s as a uint32_t, kept in
\* two 16-bit halves: [n, hi, lo, over, rest]
RECURSIVE BaseDigitsU(_, _, _, _, _, _)
BaseDigitsU(s, base, n, hi, lo, over) ==
  IF s # <<>> /\ DigitOf(Head(s)) < base
    THEN LET l == lo * base + DigitOf(Head(s))
             h == hi * base + (l \div 65536)
         IN BaseDigitsU(Tail(s), base, n + 1, h % 65536, l % 65536,
                        over \/ h >= 65536)
    ELSE [n |-> n, hi |-> hi, lo |-> lo, over |-> over, rest |-> s]

\* the 32 bits of the two halves, all ones after an overflow
Pattern(r) ==
  IF r.over THEN 0 - 1
  ELSE IF r.hi >= 32768 THEN (r.hi - 65536) * 65536 + r.lo
  ELSE r.hi * 65536 + r.lo

\* strtoul with a 32-bit unsigned long: [val, rest], the value clamped to
\* ULONG_MAX, a minus sign negating it modulo 2^32
strtoul(s, base) ==
  With(SkipWhite(s), LAMBDA t :
  With(IF t # <<>> /\ Head(t) \in {"-", "+"} THEN Tail(t) ELSE t, LAMBDA u :
  With(BaseDigitsU(IF base = 16 /\ HexPrefix(u) THEN Drop(u, 2) ELSE u,
                   base, 0, 0, 0, FALSE), LAMBDA r :
  With(Pattern(r), LAMBDA pat :
    IF r.n = 0 THEN [val |-> 0, rest |-> s]
    ELSE [val |-> IF t # <<>> /\ Head(t) = "-" /\ ~r.over
                    THEN NegI32(pat) ELSE pat,
          rest |-> r.rest]))))

\* a faulty atoi: the sign of the number is dropped
atoiUnsigned(s) ==
  With(strtol(s, 10).val, LAMBDA v : IF v < 0 THEN NegI32(v) ELSE v)

\* atoi is (int)strtol(s, NULL, 10)
atoi(s) == strtol(s, 10).val

\* a faulty copy: strncpy(dst, src, cap), which leaves no room for the '\0'
StrNCpyNoRoom(src, cap) == Take(src, cap)

\* strncpy(dst, src, cap - 1); dst[cap - 1] = '\0';
StrNCpy(src, cap) == Take(src, cap - 1)

(***************************************************************************)
(* char* values that may be NULL.                                          *)
(***************************************************************************)
NULL == [null |-> TRUE, s |-> <<>>]

Ptr(s) == [null |-> FALSE, s |-> s]

\* !args || !*args
NullOrEmpty(p) == p.null \/ p.s = <<>>


(***************************************************************************)
(* Text of the command table and of the lines the model feeds the shell.   *)
(***************************************************************************)
\* the names the shell compares its words with: commands, script actions, register operations
Word ==
  [help |-> <<"h", "e", "l", "p">>,
   about |-> <<"a", "b", "o", "u", "t">>,
   gpio |-> <<"g", "p", "i", "o">>,
   timer |-> <<"t", "i", "m", "e", "r">>,
   callback |-> <<"c", "a", "l", "l", "b", "a", "c", "k">>,
   ticker |-> <<"t", "i", "c", "k", "e", "r">>,
   error |-> <<"e", "r", "r", "o", "r">>,
   print |-> <<"p", "r", "i", "n", "t">>,
   memr |-> <<"m", "e", "m", "r">>,
   reg |-> <<"r", "e", "g">>,
   script |-> <<"s", "c", "r", "i", "p", "t">>,
   rem |-> <<"r", "e", "m">>,
   if |-> <<"i", "f">>,
   x |-> <<"x">>,
   w |-> <<"w">>,
   c |-> <<"c">>,
   mov |-> <<"m", "o", "v">>,
   div |-> <<"d", "i", "v">>,
   xchg |-> <<"x", "c", "h", "g">>]

\* the decimal digits of n >= 0, most significant first
RECURSIVE DecStr(_)
DecStr(n) ==
  LET d == <<"0", "1", "2", "3", "4", "5", "6", "7", "8", "9">>[(n % 10) + 1]
  IN IF n < 10 THEN <<d>> ELSE Append(DecStr(n \div 10), d)

\* the text of a signed decimal number, as an operator types it
NumStr(n) ==
  IF n = INT_MIN THEN <<"-">> \o Append(DecStr(214748364), "8")
  ELSE IF n < 0 THEN <<"-">> \o DecStr(0 - n) ELSE DecStr(n)

\* the words of a line joined by single blanks
RECURSIVE Words(_)
Words(ws) ==
  IF Len(ws) = 0 THEN <<>>
  ELSE IF Len(ws) = 1 THEN ws[1]
  ELSE ws[1] \o <<" ">> \o Words(Tail(ws))

\* "-name"
Cmd(name) == <<"-">> \o name

(***************************************************************************)
(* The state the command handlers work on.  It is passed to the handlers   *)
(* as one record: the tables of the program, the text written to the UART  *)
(* by the step, and the history the properties are stated on.              *)
(*   ctx   who called the dispatcher: <<"uart", 0>>, <<"cb", k>> (the      *)
(*         firing of callback k) or <<"tk", i>> (the firing of ticker i)   *)
(*   cbG, tkG  per entry: the count K it was last configured with (0 when  *)
(*         disabled), the dispatches since then, the polls/ticks since     *)
(*         then, whether the entry was configured by its own payload, for  *)
(*         a callback whether an interrupt of its flag occurred since      *)
(*         then (fresh), and for a ticker whether it was configured        *)
(*         during a sweep                                                  *)
(*   fault the first undefined operation the program ran into, "" if none  *)
(***************************************************************************)
CbIdx == 0 .. MAX_CB - 1
TickerIdx == 0 .. MAX_TICKERS - 1

\* struct CbEntry cb[MAX_CB], zero-initialised
CbEntry0 == [active |-> FALSE, remaining |-> 0, payload |-> <<>>]

\* struct TickerEntry ticker[MAX_TICKERS] = {0}
TickerEntry0 ==
  [active |-> FALSE, delay_ticks |-> 0, period_ticks |-> 0, count |-> 0,
   payload |-> <<>>, ticks_left |-> 0]

CbG0 == [K |-> 0, fired |-> 0, seen |-> 0, self |-> FALSE, fresh |-> FALSE]

TkG0 == [K |-> 0, fired |-> 0, ticks |-> 0, self |-> FALSE, mid |-> FALSE]

\* one piece of UART output: a diagnostic, named by its text, or echoed text
Msg(m) == [msg |-> m, text |-> <<>>]

Emit(st, m) == [st EXCEPT !.out = Append(@, Msg(m))]

Fault(st, f) == IF st.fault = "" THEN [st EXCEPT !.fault = f] ELSE st

(***************************************************************************)
(* int32_t registers[NUM_REGISTERS].  An access with an index outside the  *)
(* array is undefined: the model records it as the fault "registers index" *)
(* (a read then yields 0, a write changes nothing of the bank).            *)
(***************************************************************************)
InBank(n) == n >= 0 /\ n < NUM_REGISTERS

\* the fault of the access registers[n]
BankFault(n) == IF InBank(n) THEN "" ELSE "registers index"

\* registers[n]
RegGet(st, n) == IF InBank(n) THEN st.registers[n] ELSE 0

\* registers[n] = v
RegSet(st, n, v) ==
  IF InBank(n) THEN [st EXCEPT !.registers[n] = v]
  ELSE Fault(st, BankFault(n))

\* a faulty cmd_callback: count 0 prints clr and leaves the entry as it is
cmd_callback_keeps(st, args) ==
  IF NullOrEmpty(args) THEN Emit(st, "callbacks")
  ELSE
    With(SkipSpaces(args.s), LAMBDA a1 :
    With(atoi(a1), LAMBDA idx :
    With(SkipSpaces(SkipToSpace(a1)), LAMBDA a3 :
    With(atoi(a3), LAMBDA cnt :
      IF idx < 0 \/ idx >= MAX_CB THEN Emit(st, "idx0-2")
      ELSE IF cnt = 0 THEN Emit([st EXCEPT !.cbG[idx] = CbG0], "clr")
      ELSE [st EXCEPT
              !.cb[idx] = [active |-> TRUE, remaining |-> cnt,
                           payload |-> StrNCpy(SkipSpaces(SkipToBlank(a3)),
                                               MAX_PAYLOAD)],
              !.cbG[idx] = [K |-> cnt, fired |-> 0, seen |-> 0,
                            self |-> (st.ctx = <<"cb", idx>>),
                            fresh |-> FALSE]]))))

(***************************************************************************)
(* cmd_callback                                                            *)
(***************************************************************************)
cmd_callback(st, args) ==
  IF NullOrEmpty(args) THEN Emit(st, "callbacks")
  ELSE
    With(SkipSpaces(args.s), LAMBDA a1 :
    With(atoi(a1), LAMBDA idx :
    With(SkipSpaces(SkipToSpace(a1)), LAMBDA a3 :
    With(atoi(a3), LAMBDA cnt :
      IF idx < 0 \/ idx >= MAX_CB THEN Emit(st, "idx0-2")
      ELSE IF cnt = 0
        THEN Emit([st EXCEPT !.cb[idx].active = FALSE,
                             !.cbG[idx] = CbG0], "clr")
      ELSE [st EXCEPT
              !.cb[idx] = [active |-> TRUE, remaining |-> cnt,
                           payload |-> StrNCpy(SkipSpaces(SkipToBlank(a3)),
                                               MAX_PAYLOAD)],
              !.cbG[idx] = [K |-> cnt, fired |-> 0, seen |-> 0,
                            self |-> (st.ctx = <<"cb", idx>>),
                            fresh |-> FALSE]]))))

(***************************************************************************)
(* cmd_ticker                                                              *)
(***************************************************************************)
cmd_ticker(st, args) ==
  IF NullOrEmpty(args) THEN Emit(st, "tickers")
  ELSE
    With(SkipSpaces(args.s), LAMBDA a1 :
    With(atoi(a1), LAMBDA idx :
    With(SkipSpaces(SkipDigits(a1)), LAMBDA a3 :
    With(atoi(a3), LAMBDA delay :
    With(SkipSpaces(SkipToSpace(a3)), LAMBDA a4 :
    With(SkipSpaces(SkipToSpace(a4)), LAMBDA a5 :
    With(atoi(a5), LAMBDA cnt :
      IF idx < 0 \/ idx >= MAX_TICKERS THEN Emit(st, "idx0-15")
      ELSE IF cnt = 0
        THEN Emit([st EXCEPT !.ticker[idx].active = FALSE,
                             !.tkG[idx] = TkG0], "clr")
      ELSE [st EXCEPT
              !.ticker[idx] =
                 [active |-> TRUE, delay_ticks |-> delay,
                  period_ticks |-> atoi(a4), count |-> cnt,
                  payload |-> StrNCpy(SkipSpaces(SkipToSpace(a5)),
                                      MAX_TICKER_PAYLOAD),
                  ticks_left |-> delay],
              !.tkG[idx] = [K |-> cnt, fired |-> 0, ticks |-> 0,
                            self |-> (st.ctx = <<"tk", idx>>),
                            mid |-> (st.ctx[1] = "tk")]])))))))

\* cmd_print: if(text) putStr(text); putStr("\r\n");
cmd_print(st, text) ==
  [st EXCEPT !.out = Append(@, [msg |-> "print",
                                 text |-> IF text.null THEN <<>> ELSE text.s])]

\* cmd_rem: a comment line
cmd_rem(st, args) == st

(***************************************************************************)
(* The script store and -if call the dispatcher again, and the dispatcher  *)
(* calls them: d is the number of dispatcher calls on the stack.  The      *)
(* program has no limit on it; the model records a stack overflow when a   *)
(* dispatch would nest deeper than MaxDepth.                               *)
(***************************************************************************)
RECURSIVE handleLine(_, _, _)

\* print_script_line: snprintf(buf, sizeof(buf), "%2d | %s\r\n", ...) with
\* char buf[80] keeps the first 79 characters of the formatted line
print_script_line(st, line) ==
  IF line < 0 \/ line >= SCRIPT_LINES THEN Emit(st, "Bad line")
  ELSE [st EXCEPT !.out = Append(@,
          [msg |-> "script",
           text |-> Take((IF line < 10 THEN <<" ">> ELSE <<>>)
                           \o NumStr(line) \o <<" ", "|", " ">>
                           \o (IF st.scriptLines[line] # <<>>
                                 THEN st.scriptLines[line]
                                 ELSE <<"<", "e", "m", "p", "t", "y", ">">>)
                           \o <<"\r", "\n">>,
                         80 - 1)])]

\* a faulty execute loop: an empty slot is passed over, and the loop goes
\* on to the end of the table
RECURSIVE ScriptExecSkipsEmpty(_, _, _)
ScriptExecSkipsEmpty(st, i, d) ==
  IF i < 0 THEN Fault(st, "scriptLines index")
  ELSE IF i < SCRIPT_LINES /\ st.fault = ""
    THEN ScriptExecSkipsEmpty(
           IF st.scriptLines[i] # <<>>
             THEN handleLine(st, Take(st.scriptLines[i], SCRIPT_LINE_SIZE),
                             d + 1)
             ELSE st, i + 1, d)
    ELSE st

\* the execute loop of cmd_script, from slot i on
RECURSIVE ScriptExec(_, _, _)
ScriptExec(st, i, d) ==
  IF i < 0 THEN Fault(st, "scriptLines index")
  ELSE IF i < SCRIPT_LINES /\ st.scriptLines[i] # <<>> /\ st.fault = ""
    THEN ScriptExec(handleLine(st, Take(st.scriptLines[i], SCRIPT_LINE_SIZE),
                               d + 1), i + 1, d)
    ELSE st

\* cmd_script
cmd_script(st, args, d) ==
  IF NullOrEmpty(args) THEN Emit(st, "scripts")
  ELSE
    With(SkipSpaces(args.s), LAMBDA a1 :
    With(atoi(a1), LAMBDA idx :
    With(SkipSpaces(SkipToSpace(a1)), LAMBDA a2 :
    With(idx >= 0 /\ idx < SCRIPT_LINES, LAMBDA inTable :
      IF a2 = <<>> THEN print_script_line(st, idx)
      ELSE IF Head(a2) = "w"
        THEN IF inTable
               THEN Emit([st EXCEPT !.scriptLines[idx] =
                            StrNCpy(SkipSpaces(SkipToSpace(a2)),
                                    SCRIPT_LINE_SIZE)], "loaded")
               ELSE Fault(st, "scriptLines index")
      ELSE IF Head(a2) = "x" THEN ScriptExec(st, idx, d)
      ELSE IF Head(a2) = "c"
        THEN IF inTable
               THEN Emit([st EXCEPT !.scriptLines[idx] = <<>>], "cleared")
               ELSE Fault(st, "scriptLines index")
      ELSE Emit(st, "Usage: -script")))))

\* one %Ns conversion of sscanf: [ok, tok, rest]
RECURSIVE ScanChars(_, _)
ScanChars(s, w) ==
  IF w > 0 /\ s # <<>> /\ ~isspace(Head(s))
    THEN With(ScanChars(Tail(s), w - 1), LAMBDA r :
           [tok |-> <<Head(s)>> \o r.tok, rest |-> r.rest])
    ELSE [tok |-> <<>>, rest |-> s]

ScanS(s, w) ==
  With(ScanChars(SkipWhite(s), w), LAMBDA r :
    [ok |-> r.tok # <<>>, tok |-> r.tok, rest |-> r.rest])

\* strchr: the index of the first c in s, 0 when there is none
RECURSIVE StrChr(_, _, _)
StrChr(s, c, i) ==
  IF i > Len(s) THEN 0 ELSE IF s[i] = c THEN i ELSE StrChr(s, c, i + 1)

\* while(len > 0 && isspace(qmark[len-1])) len--;
RECURSIVE TrimLen(_, _)
TrimLen(s, len) ==
  IF len > 0 /\ isspace(s[len]) THEN TrimLen(s, len - 1) ELSE len

\* get_if_operand: [ok, val, bad]; bad is the fault of the evaluation, ""
\* when there is none
get_if_operand(st, tok) ==
  IF tok # <<>> /\ Head(tok) = "#"
    THEN With(strtol(Tail(tok), 0), LAMBDA r :
           [ok |-> r.rest = <<>>, val |-> r.val, bad |-> ""])
  ELSE IF tok # <<>> /\ Head(tok) \in {"r", "R"}
    THEN With(atoi(Tail(tok)), LAMBDA n :
           IF n >= 0 /\ n < 32
             THEN [ok |-> TRUE, val |-> RegGet(st, n), bad |-> BankFault(n)]
             ELSE [ok |-> FALSE, val |-> 0, bad |-> ""])
  ELSE [ok |-> FALSE, val |-> 0, bad |-> ""]

\* a faulty comparison: a and b are compared as uint32_t
IfHoldsUnsigned(c, a, b) ==
  \/ c = ">" /\ (IF (a < 0) = (b < 0) THEN a > b ELSE a < 0)
  \/ c = "<" /\ (IF (a < 0) = (b < 0) THEN a < b ELSE b < 0)
  \/ c = "=" /\ a = b

\* the comparison of -if: c is the first character of the COND token
IfHolds(c, a, b) ==
  (c = ">" /\ a > b) \/ (c = "<" /\ a < b) \/ (c = "=" /\ a = b)

\* cmd_if
cmd_if(st, args, d) ==
  IF args.null THEN Fault(st, "sscanf(NULL)")
  ELSE
    With(args.s, LAMBDA q :
    With(ScanS(q, 15), LAMBDA tA :
    With(IF tA.ok THEN ScanS(tA.rest, 2) ELSE tA, LAMBDA tC :
    With(IF tC.ok THEN ScanS(tC.rest, 15) ELSE tC, LAMBDA tB :
    With(StrChr(q, "?", 1), LAMBDA qi :
    With(Drop(q, qi), LAMBDA qmark :
    With(StrChr(qmark, ":", 1), LAMBDA ci :
    With(TrimLen(qmark, ci - 1), LAMBDA len :
    With(get_if_operand(st, tA.tok), LAMBDA a :
    With(get_if_operand(st, tB.tok), LAMBDA b :
    With(Head(tC.tok), LAMBDA c :
      IF ~tB.ok THEN Emit(st, "Usage: -if")
      ELSE IF qi = 0 THEN Emit(st, "Bad '?' in -if")
      ELSE IF ci > 0 /\ len > 63 THEN Fault(st, "destt overflow")
      ELSE IF ~a.ok THEN Emit(st, "Bad A")
      ELSE IF a.bad # "" THEN Fault(st, a.bad)
      ELSE IF ~b.ok THEN Emit(st, "Bad B")
      ELSE IF b.bad # "" THEN Fault(st, b.bad)
      ELSE IF c \notin {">", "<", "="} THEN Emit(st, "COND?")
      ELSE With(IF IfHolds(c, a.val, b.val)
                  THEN SkipWhite(IF ci > 0 THEN Take(qmark, len)
                                 ELSE Take(qmark, 63))
                  ELSE SkipWhite(IF ci > 0
                                   THEN Take(SkipWhite(Drop(qmark, ci)), 63)
                                   ELSE <<>>),
                LAMBDA dest :
             IF dest # <<>> THEN handleLine(st, dest, d + 1) ELSE st
           ))))))))))))

(***************************************************************************)
(* The register machine.                                                   *)
(***************************************************************************)
\* tolower, for strcasecmp
tolower(c) ==
  LET up == <<"A", "B", "C", "D", "E", "F", "G", "H", "I", "J", "K", "L", "M",
              "N", "O", "P", "Q", "R", "S", "T", "U", "V", "W", "X", "Y", "Z">>
      lo == <<"a", "b", "c", "d", "e", "f", "g", "h", "i", "j", "k", "l", "m",
              "n", "o", "p", "q", "r", "s", "t", "u", "v", "w", "x", "y", "z">>
      at == {i \in 1 .. 26 : up[i] = c}
  IN IF at = {} THEN c ELSE lo[CHOOSE i \in at : TRUE]

\* a faulty addrOK: the first address after flash is taken for flash
addrOKInclusive(a) ==
  (a >= 0 /\ a <= 524288) \/ (a >= 536870912 /\ a < 537395200)

\* addrOK
addrOK(a) == (a >= 0 /\ a < 524288) \/ (a >= 536870912 /\ a < 537395200)

\* the 32-bit word the bus returns for an address of flash or SRAM; the
\* content of the memory is not part of the model
MemWord(a) == 0

\* a faulty parse_register: the index is not compared with NUM_REGISTERS
parse_register_unbounded(tok) ==
  IF tok # <<>> /\ Head(tok) \in {"r", "R"}
    THEN With(atoi(Tail(tok)), LAMBDA n : IF n >= 0 THEN n ELSE 0 - 1)
    ELSE 0 - 1

\* parse_register: the index, or -1
parse_register(tok) ==
  IF tok # <<>> /\ Head(tok) \in {"r", "R"}
    THEN With(atoi(Tail(tok)), LAMBDA n :
           IF n >= 0 /\ n < NUM_REGISTERS THEN n ELSE 0 - 1)
    ELSE 0 - 1

\* parse_immediate: [ok, val]
parse_immediate(tok) ==
  IF tok = <<>> \/ Head(tok) # "#" THEN [ok |-> FALSE, val |-> 0]
  ELSE With(IF Len(tok) >= 2 /\ tok[2] \in {"x", "X"}
              THEN strtol(Drop(tok, 2), 16) ELSE strtol(Tail(tok), 10),
            LAMBDA r : [ok |-> r.rest = <<>>, val |-> r.val])

\* parse_memory_address: [ok, addr, bad]; bad is the fault of the read of
\* the register of @rN, "" when there is none
parse_memory_address(st, tok) ==
  IF tok = <<>> \/ Head(tok) # "@" THEN [ok |-> FALSE, addr |-> 0, bad |-> ""]
  ELSE IF Len(tok) >= 2 /\ tok[2] \in {"r", "R"}
    THEN With(parse_register(Tail(tok)), LAMBDA r :
           IF r >= 0
             THEN [ok |-> TRUE, addr |-> RegGet(st, r), bad |-> BankFault(r)]
             ELSE [ok |-> FALSE, addr |-> 0, bad |-> ""])
  ELSE IF Len(tok) >= 2 /\ tok[2] \in {"x", "X"}
    THEN [ok |-> TRUE, addr |-> strtoul(Drop(tok, 2), 16).val, bad |-> ""]
  ELSE [ok |-> TRUE, addr |-> strtoul(Tail(tok), 10).val, bad |-> ""]

\* the fault of the read *(int32_t*)addr: none for an address of flash or
\* of SRAM; any other address is read all the same, and that read is
\* recorded as the fault "bus fault"
DerefFault(addr) == IF addrOK(addr) THEN "" ELSE "bus fault"

\* get_operand_value: [ok, val, bad]; bad is the fault of the evaluation, ""
\* when there is none
get_operand_value(st, tok) ==
  With(parse_register(tok), LAMBDA r :
  With(parse_immediate(tok), LAMBDA imm :
  With(parse_memory_address(st, tok), LAMBDA m :
    IF r >= 0 THEN [ok |-> TRUE, val |-> RegGet(st, r), bad |-> BankFault(r)]
    ELSE IF imm.ok THEN [ok |-> TRUE, val |-> imm.val, bad |-> ""]
    ELSE IF m.ok
      THEN IF m.bad # "" THEN [ok |-> TRUE, val |-> 0, bad |-> m.bad]
           ELSE [ok |-> TRUE, val |-> MemWord(m.addr),
                 bad |-> DerefFault(m.addr)]
    ELSE [ok |-> FALSE, val |-> 0, bad |-> ""])))

\* the opcodes that take a source operand
BinOps ==
  {<<"m", "o", "v">>, <<"a", "d", "d">>, <<"s", "u", "b">>, <<"m", "u", "l">>,
   <<"d", "i", "v">>, <<"r", "e", "m">>, <<"a", "n", "d">>, <<"i", "o", "r">>,
   <<"x", "o", "r">>, <<"m", "a", "x">>, <<"m", "i", "n">>}

\* the opcodes that take the destination only
UnOps ==
  {<<"i", "n", "c">>, <<"d", "e", "c">>, <<"n", "e", "g">>, <<"n", "o", "t">>}

\* a faulty arithmetic: sub takes the destination from the source
BinResultReversed(op, x, v) ==
  CASE op = <<"m", "o", "v">> -> v
    [] op = <<"a", "d", "d">> -> AddI32(x, v)
    [] op = <<"s", "u", "b">> -> SubI32(v, x)
    [] op = <<"m", "u", "l">> -> MulI32(x, v)
    [] op = <<"d", "i", "v">> -> DivI32(x, v)
    [] op = <<"r", "e", "m">> -> RemI32(x, v)
    [] op = <<"a", "n", "d">> -> BitAnd(x, v)
    [] op = <<"i", "o", "r">> -> BitOr(x, v)
    [] op = <<"x", "o", "r">> -> BitXor(x, v)
    [] op = <<"m", "a", "x">> -> IF x < v THEN v ELSE x
    [] op = <<"m", "i", "n">> -> IF x > v THEN v ELSE x

\* the new value of the destination, x, for source value v
BinResult(op, x, v) ==
  CASE op = <<"m", "o", "v">> -> v
    [] op = <<"a", "d", "d">> -> AddI32(x, v)
    [] op = <<"s", "u", "b">> -> SubI32(x, v)
    [] op = <<"m", "u", "l">> -> MulI32(x, v)
    [] op = <<"d", "i", "v">> -> DivI32(x, v)
    [] op = <<"r", "e", "m">> -> RemI32(x, v)
    [] op = <<"a", "n", "d">> -> BitAnd(x, v)
    [] op = <<"i", "o", "r">> -> BitOr(x, v)
    [] op = <<"x", "o", "r">> -> BitXor(x, v)
    [] op = <<"m", "a", "x">> -> IF x < v THEN v ELSE x
    [] op = <<"m", "i", "n">> -> IF x > v THEN v ELSE x

UnResult(op, x) ==
  CASE op = <<"i", "n", "c">> -> AddI32(x, 1)
    [] op = <<"d", "e", "c">> -> SubI32(x, 1)
    [] op = <<"n", "e", "g">> -> NegI32(x)
    [] op = <<"n", "o", "t">> -> BitNot(x)

\* the echo of the destination that ends a successful cmd_reg
RegEcho(st, dreg) ==
  [st EXCEPT !.out = Append(@, [msg |-> "R=",
      text |-> <<"R">> \o DecStr(dreg) \o <<"=">> \o NumStr(RegGet(st, dreg))])]

\* a faulty division by zero: the diagnostic, and the destination cleared
DivZeroClears(st, dreg) == Emit(RegSet(st, dreg, 0), "div0")

\* if (val == 0) { putStr("div0\r\n"); return; }
DivZero(st, dreg) == Emit(st, "div0")

\* cmd_reg
cmd_reg(st, args) ==
  IF NullOrEmpty(args) THEN Emit(st, "registers")
  ELSE
    With(ScanS(args.s, 7), LAMBDA t0 :
    With(IF t0.ok THEN ScanS(t0.rest, 15) ELSE t0, LAMBDA t1 :
    With(IF t1.ok THEN ScanS(t1.rest, 15) ELSE t1, LAMBDA t2 :
    With(IF t1.ok /\ t2.ok THEN t2.tok ELSE <<>>, LAMBDA tok2 :
    With([i \in 1 .. Len(t0.tok) |-> tolower(t0.tok[i])], LAMBDA op :
    With(parse_register(t1.tok), LAMBDA dreg :
    With(get_operand_value(st, tok2), LAMBDA src :
    With(parse_register(tok2), LAMBDA sreg :
      IF ~t1.ok THEN Emit(st, "Usage: -reg")
      ELSE IF op \in BinOps
        THEN IF ~src.ok THEN Emit(st, "Bad src")
             ELSE IF src.bad # "" THEN Fault(st, src.bad)
             ELSE IF dreg < 0 THEN Emit(st, "Bad dst")
             ELSE IF op \in {<<"d", "i", "v">>, <<"r", "e", "m">>} /\ src.val = 0
               THEN DivZero(st, dreg)
             ELSE RegEcho(RegSet(st, dreg,
                                 BinResult(op, RegGet(st, dreg), src.val)),
                          dreg)
      ELSE IF op = <<"x", "c", "h", "g">>
        THEN IF dreg < 0 \/ sreg < 0 THEN Emit(st, "Bad reg")
             ELSE RegEcho(RegSet(RegSet(st, dreg, RegGet(st, sreg)),
                                 sreg, RegGet(st, dreg)), dreg)
      ELSE IF op \in UnOps
        THEN IF dreg < 0 THEN Emit(st, "Bad reg")
             ELSE RegEcho(RegSet(st, dreg, UnResult(op, RegGet(st, dreg))),
                          dreg)
      ELSE Emit(st, "Bad op")))))))))

\* cmd_memr
cmd_memr(st, a) ==
  IF NullOrEmpty(a) THEN Emit(st, "need addr")
  ELSE With(strtoul(a.s, 16).val, LAMBDA d :
         IF ~addrOK(d) THEN Emit(st, "addr our of  range")
         ELSE [st EXCEPT !.out = Append(@, [msg |-> "memr", text |-> NumStr(d)])])

(***************************************************************************)
(* The dispatcher.                                                         *)
(***************************************************************************)
\* strtok(line, " \t") then strtok(NULL, ""): the first token, and what
\* follows the one delimiter that ended it (NULL when nothing follows)
RECURSIVE SkipDelims(_)
SkipDelims(s) ==
  IF s # <<>> /\ Head(s) \in {" ", "\t"} THEN SkipDelims(Tail(s)) ELSE s

RECURSIVE TokenLen(_, _)
TokenLen(s, n) ==
  IF n < Len(s) /\ s[n + 1] \notin {" ", "\t"} THEN TokenLen(s, n + 1) ELSE n

\* buf is the string left in the buffer of the line: strtok ends the token
\* by writing '\0' over the delimiter that follows it
strtok2(line) ==
  With(SkipDelims(line), LAMBDA t :
  With(TokenLen(t, 0), LAMBDA n :
  With(Drop(t, n + 1), LAMBDA rest :
    [cmd |-> IF t = <<>> THEN NULL ELSE Ptr(Take(t, n)),
     args |-> IF rest = <<>> THEN NULL ELSE Ptr(rest),
     buf |-> Take(line, (Len(line) - Len(t)) + n)])))

\* a faulty report of an unknown command: the diagnostic, and no count
UnknownCmdUncounted(st, m) == Emit(st, m)

\* the count of unknown commands, an unsigned
UnknownCmd(st, m) ==
  Emit([st EXCEPT !.errorCount.unknown_cmd = AddI32(@, 1)], m)

\* commands whose effect is on the UART, the GPIO pins or the timer
\* peripheral only: help, about, gpio, timer, error
OutputOnly ==
  {Word.help, Word.about, Word.gpio, Word.timer, Word.error}

\* the handler of the command table for the name cmd
Dispatch(st, cmd, args, d) ==
  IF cmd \in OutputOnly THEN Emit(st, "text")
  ELSE IF cmd = Word.callback THEN cmd_callback(st, args)
  ELSE IF cmd = Word.ticker THEN cmd_ticker(st, args)
  ELSE IF cmd = Word.print THEN cmd_print(st, args)
  ELSE IF cmd = Word.memr THEN cmd_memr(st, args)
  ELSE IF cmd = Word.reg THEN cmd_reg(st, args)
  ELSE IF cmd = Word.script THEN cmd_script(st, args, d)
  ELSE IF cmd = Word.rem THEN cmd_rem(st, args)
  ELSE IF cmd = Word.if THEN cmd_if(st, args, d)
  ELSE UnknownCmd(st, "?? unknown")

\* handleLine
handleLine(st, line, d) ==
  With(strtok2(line), LAMBDA t :
    IF d > MaxDepth THEN Fault(st, "stack overflow")
    ELSE IF t.cmd.null THEN st
    ELSE IF Head(t.cmd.s) # "-"
      THEN UnknownCmd(st, "?? unknown (expected leading '-')")
    ELSE Dispatch(st, Tail(t.cmd.s), t.args, d))

\* strcpy(payloadBuf, p): the characters of p up to its end
StrCpy(p) == Take(p, Len(p))

\* a faulty execPayload: handleLine((char*)p), with no copy; the dispatcher
\* tokenizes the stored payload of the entry that fires
execPayloadInPlace(st, p, d) ==
  IF p # <<>> /\ Len(p) < RX_BUF_SZ
    THEN handleLine(
           IF st.ctx[1] = "cb"
             THEN [st EXCEPT !.cb[st.ctx[2]].payload = strtok2(p).buf]
             ELSE [st EXCEPT !.ticker[st.ctx[2]].payload = strtok2(p).buf],
           p, d)
    ELSE st

\* execPayload: the dispatcher works on payloadBuf, a copy of the payload
execPayload(st, p, d) ==
  IF p # <<>> /\ Len(p) < RX_BUF_SZ THEN handleLine(st, StrCpy(p), d) ELSE st

(***************************************************************************)
(* The HWK4 variant of the program (uartecho.c of HWK4).  Its interrupt    *)
(* routines set no flag: they put an event on the queue cbq, and the main  *)
(* loop, each time UART_read has returned a character, takes the events    *)
(* off the queue and dispatches them.  MAX_TICKERS is 16 there too.        *)
(*   callbacks, tickers, cbq, cbq_head, cbq_tail   as in the source        *)
(*   errorCount  errorCount[ERR_UNKNOWN_CMD]                               *)
(*   out         what the last step of the main loop wrote to the UART     *)
(*   pc          where the main loop is: "read" (in UART_read), "pop",     *)
(*               "popVal", "popTail" (the three accesses of cbq_pop),      *)
(*               "event" (the dispatch of cbidx), "key" (the handling of   *)
(*               the character read)                                       *)
(*   ch          the character read: <<>> for a key that ends no line,     *)
(*               else the line that the CR read ends                       *)
(*   cbidx       the local of the main loop, val the local of cbq_pop      *)
(*   fault       the first undefined operation, "" if none                 *)
(* and its history:                                                        *)
(*   fifo        the events cbq_push stored that cbq_pop has not returned, *)
(*               oldest first                                              *)
(*   fired       per event, how often its interrupt routine accounted for  *)
(*               a firing                                                  *)
(*   dispatched  per event, how often the main loop handed the payload of  *)
(*               its entry to handleLine                                   *)
(*   irqs        the interrupts so far                                     *)
(***************************************************************************)
CBQ_SZ == 8

CBQ_TICKER_BASE == 1000

MAX_CALLBACKS == 3

\* the events: callback k is k, ticker i is CBQ_TICKER_BASE + i
Events == (0 .. MAX_CALLBACKS - 1) \cup {CBQ_TICKER_BASE + i : i \in TickerIdx}

\* static CallbackEntry callbacks[MAX_CALLBACKS] = {0};
CallbackEntry0 == [active |-> FALSE, count |-> 0, payload |-> <<>>]

\* static TickerEntry tickers[MAX_TICKERS] = {0};
Hwk4TickerEntry0 ==
  [active |-> FALSE, count |-> 0, delay |-> 0, period |-> 0, ticks_left |-> 0,
   payload |-> <<>>]

Hwk4Init ==
  [callbacks |-> [k \in 0 .. MAX_CALLBACKS - 1 |-> CallbackEntry0],
   tickers |-> [i \in TickerIdx |-> Hwk4TickerEntry0],
   cbq |-> [n \in 0 .. CBQ_SZ - 1 |-> 0], cbq_head |-> 0, cbq_tail |-> 0,
   errorCount |-> 0, out |-> <<>>, pc |-> "read", ch |-> <<>>,
   cbidx |-> 0 - 1, val |-> 0 - 1, fault |-> "",
   fifo |-> <<>>, fired |-> [e \in Events |-> 0],
   dispatched |-> [e \in Events |-> 0], irqs |-> 0]

(***************************************************************************)
(* The state of the program.                                               *)
(*   flag      the four volatile event flags, by name                      *)
(*   pc        where the main loop is: <<"cbTest", k>>, <<"cbSvc", k>>,    *)
(*             <<"cbPost", k>>, <<"tkTest", 0>>, <<"tkClear", 0>>,         *)
(*             <<"tkEntry", i>>, <<"tkPost", i>>, <<"uart", 0>>            *)
(*   out       what the last step wrote to the UART                        *)
(* and its history:                                                        *)
(*   log       the flag tests and payload dispatches of the current        *)
(*             iteration of the main loop, in order                        *)
(*   pending   per flag, whether its interrupt occurred since the main     *)
(*             loop last tested the flag                                   *)
(*   arrived   per flag, the interrupts since the main loop last cleared   *)
(*             the flag: 0, 1, or 2 for two or more                        *)
(*   polled    the flag the loop last tested, if it found it set, and the  *)
(*             interrupts that had arrived when it was tested              *)
(*   edit      the line editor: gLineBuf (buf), len, cursor, history and   *)
(*             hasHistory                                                  *)
(*   hwk4      the state of the HWK4 variant of the program, which is      *)
(*             modelled apart: the program above never touches it          *)
(***************************************************************************)
VARIABLES registers, scriptLines, cb, ticker, errorCount, flag, pc, out,
          fault, log, pending, arrived, polled, cbG, tkG, edit, hwk4

vars == <<registers, scriptLines, cb, ticker, errorCount, flag, pc, out,
          fault, log, pending, arrived, polled, cbG, tkG, edit, hwk4>>

Flags == {"tickFlag", "sw1Flag", "sw2Flag", "tickerFlag"}

\* the flag callback k is bound to
CbFlag(k) == <<"tickFlag", "sw1Flag", "sw2Flag">>[k + 1]

Min(a, b) == IF a < b THEN a ELSE b

Max(a, b) == IF a > b THEN a ELSE b

\* the loop found the flag it last tested clear
NoPoll == [f |-> "", n |-> 0]

\* the loop found flag f set
Poll(f) == [f |-> f, n |-> arrived[f]]

\* the handlers' view of the state, for a dispatch made by ctx
St(ctx) ==
  [registers |-> registers, scriptLines |-> scriptLines, cb |-> cb,
   ticker |-> ticker, errorCount |-> errorCount, out |-> <<>>,
   fault |-> fault, ctx |-> ctx, cbG |-> cbG, tkG |-> tkG]

\* the state after a dispatch
Commit(st) ==
  /\ registers' = st.registers
  /\ scriptLines' = st.scriptLines
  /\ cb' = st.cb
  /\ ticker' = st.ticker
  /\ errorCount' = st.errorCount
  /\ out' = st.out
  /\ fault' = st.fault
  /\ cbG' = st.cbG
  /\ tkG' = st.tkG

tables == <<registers, scriptLines, cb, ticker, errorCount, fault, cbG, tkG>>

\* a '\0' in an array of char
NUL == ""

\* static char gLineBuf[RX_BUF_SZ]; static size_t len = 0, cursor = 0;
\* static char history[RX_BUF_SZ]; static bool hasHistory = false;
\* buf[i + 1] is gLineBuf[i]; history is held as the string it contains
Edit0 ==
  [buf |-> [i \in 1 .. RX_BUF_SZ |-> NUL], len |-> 0, cursor |-> 0,
   history |-> <<>>, hasHistory |-> FALSE]

Init ==
  /\ registers = [i \in 0 .. NUM_REGISTERS - 1 |-> 0]
  /\ scriptLines = [i \in 0 .. SCRIPT_LINES - 1 |-> <<>>]
  /\ cb = [k \in CbIdx |-> CbEntry0]
  /\ ticker = [i \in TickerIdx |-> TickerEntry0]
  /\ errorCount = [unknown_cmd |-> 0, overflow |-> 0, bad_gpio |-> 0,
                   parse_gpio |-> 0]
  /\ flag = [f \in Flags |-> FALSE]
  /\ pc = <<"cbTest", 0>>
  /\ out = <<>>
  /\ fault = ""
  /\ log = <<>>
  /\ pending = [f \in Flags |-> FALSE]
  /\ arrived = [f \in Flags |-> 0]
  /\ polled = NoPoll
  /\ cbG = [k \in CbIdx |-> CbG0]
  /\ tkG = [i \in TickerIdx |-> TkG0]
  /\ edit = Edit0
  /\ hwk4 = Hwk4Init

\* the history of the callbacks after an interrupt of flag f: the active
\* callback bound to f has had an interrupt since it was configured
Heard(f) ==
  [k \in CbIdx |->
     IF CbFlag(k) = f /\ cb[k].active THEN [cbG[k] EXCEPT !.fresh = TRUE]
     ELSE cbG[k]]

\* a faulty interrupt routine: it writes all four flags, its own to true
IsrClearsOthers(f) ==
  /\ flag' = [g \in Flags |-> g = f]
  /\ pending' = [pending EXCEPT ![f] = TRUE]
  /\ arrived' = [arrived EXCEPT ![f] = IF @ = 0 THEN 1 ELSE 2]
  /\ cbG' = Heard(f)
  /\ UNCHANGED <<registers, scriptLines, cb, ticker, errorCount, fault, tkG,
                 pc, out, log, polled, edit, hwk4>>

(***************************************************************************)
(* The interrupt routines: timerIsr, sw1Isr, sw2Isr, tickerIsr.            *)
(***************************************************************************)
Isr(f) ==
  /\ flag' = [flag EXCEPT ![f] = TRUE]
  /\ pending' = [pending EXCEPT ![f] = TRUE]
  /\ arrived' = [arrived EXCEPT ![f] = IF @ = 0 THEN 1 ELSE 2]
  /\ cbG' = Heard(f)
  /\ UNCHANGED <<registers, scriptLines, cb, ticker, errorCount, fault, tkG,
                 pc, out, log, polled, edit, hwk4>>

(***************************************************************************)
(* The main loop: the three callback flags.  The test of a flag and its    *)
(* clearing are two steps: the flag is volatile and an interrupt may occur *)
(* between them.                                                           *)
(***************************************************************************)
\* a faulty loop: the callback is serviced again while more than one
\* interrupt had arrived
AfterCbQueued(k) ==
  IF pc = <<"cbPost", k>> /\ polled.n > 1 THEN <<"cbSvc", k>>
  ELSE IF k + 1 < MAX_CB THEN <<"cbTest", k + 1>> ELSE <<"tkTest", 0>>

\* a faulty loop: switch 2 is polled before switch 1
AfterCbSwapped(k) ==
  IF k = 0 THEN <<"cbTest", 2>>
  ELSE IF k = 2 THEN <<"cbTest", 1>> ELSE <<"tkTest", 0>>

\* where the loop goes after callback k
AfterCb(k) == IF k + 1 < MAX_CB THEN <<"cbTest", k + 1>> ELSE <<"tkTest", 0>>

\* if(tickFlag) ...: the read of the flag
CbTest(k) ==
  /\ pc = <<"cbTest", k>>
  /\ fault = ""
  /\ pc' = IF flag[CbFlag(k)] THEN <<"cbSvc", k>> ELSE AfterCb(k)
  /\ log' = Append(log, <<"test", CbFlag(k)>>)
  /\ pending' = [pending EXCEPT ![CbFlag(k)] = FALSE]
  /\ polled' = IF flag[CbFlag(k)] THEN Poll(CbFlag(k)) ELSE NoPoll
  /\ cbG' = [cbG EXCEPT ![k].seen =
               IF flag[CbFlag(k)] /\ cbG[k].K > 0 THEN Min(@ + 1, cbG[k].K + 1)
               ELSE @]
  /\ out' = <<>>
  /\ UNCHANGED <<registers, scriptLines, cb, ticker, errorCount, fault, tkG,
                 flag, arrived, edit, hwk4>>

\* the entry after the dispatch of its payload was counted
CbFired(g) == [g EXCEPT !.fired = IF g.K > 0 THEN Min(@ + 1, g.K + 1) ELSE @]

\* tickFlag=false; if(cb[0].active){ execPayload(cb[0].payload); ...
CbSvc(k) ==
  /\ pc = <<"cbSvc", k>>
  /\ fault = ""
  /\ flag' = [flag EXCEPT ![CbFlag(k)] = FALSE]
  /\ arrived' = [arrived EXCEPT ![CbFlag(k)] = 0]
  /\ IF cb[k].active
       THEN /\ Commit(execPayload([St(<<"cb", k>>) EXCEPT !.cbG[k] = CbFired(@)],
                                  cb[k].payload, 1))
            /\ log' = Append(log, <<"cb", k>>)
            /\ pc' = <<"cbPost", k>>
       ELSE /\ UNCHANGED <<tables, log>>
            /\ out' = <<>>
            /\ pc' = AfterCb(k)
  /\ UNCHANGED <<pending, polled, edit, hwk4>>

\* a faulty post step: remaining-- == 0, the count tested before it is
\* decremented
CbAfterFireLate(e) ==
  IF e.remaining > 0 THEN [e EXCEPT !.remaining = @ - 1]
  ELSE [e EXCEPT !.active = FALSE]

\* a faulty post step: remaining != 0 for remaining > 0
CbAfterFireAny(e) ==
  IF e.remaining # 0
    THEN [e EXCEPT !.remaining = @ - 1,
                   !.active = IF e.remaining - 1 = 0 THEN FALSE ELSE @]
    ELSE e

\* if(cb[0].remaining>0 && --cb[0].remaining==0) cb[0].active=false;
CbAfterFire(e) ==
  IF e.remaining > 0
    THEN [e EXCEPT !.remaining = @ - 1,
                   !.active = IF e.remaining - 1 = 0 THEN FALSE ELSE @]
    ELSE e

CbPost(k) ==
  /\ pc = <<"cbPost", k>>
  /\ fault = ""
  /\ cb' = [cb EXCEPT ![k] = CbAfterFire(@)]
  /\ pc' = AfterCb(k)
  /\ out' = <<>>
  /\ UNCHANGED <<registers, scriptLines, ticker, errorCount, fault, cbG, tkG,
                 flag, log, pending, arrived, polled, edit, hwk4>>

(***************************************************************************)
(* The main loop: the ticker flag and the sweep of the ticker table.       *)
(***************************************************************************)
TkTest ==
  /\ pc = <<"tkTest", 0>>
  /\ fault = ""
  /\ pc' = IF flag["tickerFlag"] THEN <<"tkClear", 0>> ELSE <<"uart", 0>>
  /\ log' = Append(log, <<"test", "tickerFlag">>)
  /\ pending' = [pending EXCEPT !["tickerFlag"] = FALSE]
  /\ polled' = IF flag["tickerFlag"] THEN Poll("tickerFlag") ELSE NoPoll
  /\ out' = <<>>
  /\ UNCHANGED <<tables, flag, arrived, edit, hwk4>>

TkClear ==
  /\ pc = <<"tkClear", 0>>
  /\ fault = ""
  /\ flag' = [flag EXCEPT !["tickerFlag"] = FALSE]
  /\ arrived' = [arrived EXCEPT !["tickerFlag"] = 0]
  /\ pc' = <<"tkEntry", 0>>
  /\ out' = <<>>
  /\ UNCHANGED <<tables, log, pending, polled, edit, hwk4>>

\* where the sweep goes after entry i
AfterTk(i) == <<"tkEntry", i + 1>>

\* a faulty countdown: ticks_left > 1 for ticks_left > 0
TkCountDownLate(e) ==
  IF e.ticks_left # 0 /\ e.ticks_left # 1
    THEN [e EXCEPT !.ticks_left = SubI32(@, 1)] ELSE e

\* if(ticker[i].ticks_left > 0) ticker[i].ticks_left--;
TkCountDown(e) ==
  IF e.ticks_left # 0 THEN [e EXCEPT !.ticks_left = SubI32(@, 1)] ELSE e

\* the most ticks counted for a ticker armed with a positive count
TickCap(e, g) == Max(e.delay_ticks, 1) + g.K * e.period_ticks

\* the history of entry i after a tick of the sweep reached it
TkTicked(e, g) ==
  [g EXCEPT !.ticks = IF g.K > 0 THEN Min(@ + 1, TickCap(e, g)) ELSE @]

TkFired(g) == [g EXCEPT !.fired = IF g.K > 0 THEN Min(@ + 1, g.K + 1) ELSE @]

\* the for loop of the sweep from entry i on, up to the first entry whose
\* countdown reaches zero (at: its index) or to the end of the table
\* (at: MAX_TICKERS): the entries passed are counted down
RECURSIVE SweepFrom(_, _)
SweepFrom(st, i) ==
  IF i >= MAX_TICKERS THEN [st |-> st, at |-> MAX_TICKERS]
  ELSE IF ~st.ticker[i].active THEN SweepFrom(st, i + 1)
  ELSE LET e == TkCountDown(st.ticker[i])
           s1 == [st EXCEPT !.ticker[i] = e, !.tkG[i] = TkTicked(e, @)]
       IN IF e.ticks_left = 0 THEN [st |-> s1, at |-> i]
          ELSE SweepFrom(s1, i + 1)

\* the sweep from entry i on, up to the return of the next execPayload
TkSweep(i) ==
  /\ pc = <<"tkEntry", i>>
  /\ fault = ""
  /\ LET r == SweepFrom(St(<<"tk", i>>), i)
     IN IF r.at < MAX_TICKERS
          THEN /\ Commit(execPayload([r.st EXCEPT !.ctx = <<"tk", r.at>>,
                                                  !.tkG[r.at] = TkFired(@)],
                                     r.st.ticker[r.at].payload, 1))
               /\ log' = Append(log, <<"tk", r.at>>)
               /\ pc' = <<"tkPost", r.at>>
          ELSE /\ Commit(r.st)
               /\ log' = log
               /\ pc' = <<"uart", 0>>
  /\ UNCHANGED <<flag, pending, arrived, polled, edit, hwk4>>

\* a faulty post step: the count is decremented and the entry reloaded, and
\* never deactivated
TkAfterFireNoStop(e) ==
  [e EXCEPT !.count = IF e.count > 0 THEN @ - 1 ELSE @,
            !.ticks_left = e.period_ticks]

\* if(ticker[i].count > 0 && --ticker[i].count == 0) ticker[i].active = false;
\* else ticker[i].ticks_left = ticker[i].period_ticks;
TkAfterFire(e) ==
  IF e.count > 0 /\ e.count - 1 = 0
    THEN [e EXCEPT !.count = 0, !.active = FALSE]
    ELSE [e EXCEPT !.count = IF e.count > 0 THEN @ - 1 ELSE @,
                   !.ticks_left = e.period_ticks]

TkPost(i) ==
  /\ pc = <<"tkPost", i>>
  /\ fault = ""
  /\ ticker' = [ticker EXCEPT ![i] = TkAfterFire(@)]
  /\ pc' = AfterTk(i)
  /\ out' = <<>>
  /\ UNCHANGED <<registers, scriptLines, cb, errorCount, fault, cbG, tkG,
                 flag, log, pending, arrived, polled, edit, hwk4>>

(***************************************************************************)
(* The main loop: the UART.  A pass of the loop finds no byte (UartIdle),   *)
(* or reads one key (UartKey, UartEsc).  UartLine is the pass that reads   *)
(* the carriage return ending the non-empty line `line`, for the           *)
(* specifications in which the editor is not exercised: the line is handed *)
(* to the dispatcher and the editor is left as it is.                      *)
(***************************************************************************)
UartIdle ==
  /\ pc = <<"uart", 0>>
  /\ fault = ""
  /\ pc' = <<"cbTest", 0>>
  /\ log' = <<>>
  /\ out' = <<>>
  /\ UNCHANGED <<tables, flag, pending, arrived, polled, edit, hwk4>>

UartLine(line) ==
  /\ pc = <<"uart", 0>>
  /\ fault = ""
  /\ line # <<>>
  /\ Len(line) < RX_BUF_SZ
  /\ Commit(handleLine(St(<<"uart", 0>>), line, 1))
  /\ pc' = <<"cbTest", 0>>
  /\ log' = <<>>
  /\ UNCHANGED <<flag, pending, arrived, polled, edit, hwk4>>

(***************************************************************************)
(* The line editor.  A byte of the UART is a one-character string; the     *)
(* control characters 0x08, 0x7F, 0x15 and 0x1B are held by their names    *)
(* "BS", "DEL", "NAK" and "ESC".  The grave accent, which no string of the *)
(* module can hold, is not among the bytes.                                *)
(***************************************************************************)
isprint(c) ==
  c \in {" ", "!", "\"", "#", "$", "%", "&", "'", "(", ")", "*", "+", ",", "-",
         ".", "/", "0", "1", "2", "3", "4", "5", "6", "7", "8", "9", ":", ";",
         "<", "=", ">", "?", "@", "A", "B", "C", "D", "E", "F", "G", "H", "I",
         "J", "K", "L", "M", "N", "O", "P", "Q", "R", "S", "T", "U", "V", "W",
         "X", "Y", "Z", "[", "\\", "]", "^", "_", "a", "b", "c", "d", "e",
         "f", "g", "h", "i", "j", "k", "l", "m", "n", "o", "p", "q", "r", "s",
         "t", "u", "v", "w", "x", "y", "z", "{", "|", "}", "~"}

\* the string that starts the array b: the characters before its first '\0'
CStr(b) ==
  Take(b, CHOOSE n \in 0 .. Len(b) :
            /\ n = Len(b) \/ b[n + 1] = NUL
            /\ \A j \in 1 .. n : b[j] # NUL)

\* the editor e and what the step wrote to the UART
Edited(e, o) == [e |-> e, out |-> o, over |-> FALSE]

\* putChar(c)
Echo(c) == [msg |-> "echo", text |-> <<c>>]

\* redraw(o): the line, 2 + o blanks, and the line up to the cursor
redraw(e, o) ==
  Edited(e, <<[msg |-> "redraw",
               text |-> Take(e.buf, e.len) \o [i \in 1 .. 2 + o |-> " "]
                          \o Take(e.buf, e.cursor)]>>)

\* del()
del(e) ==
  IF e.cursor = 0 THEN Edited(e, <<>>)
  ELSE redraw([e EXCEPT !.buf = [j \in 1 .. RX_BUF_SZ |->
                                   IF j >= e.cursor /\ j < e.len
                                     THEN e.buf[j + 1] ELSE e.buf[j]],
                        !.len = @ - 1, !.cursor = @ - 1], e.len)

\* kill()
kill(e) == redraw([e EXCEPT !.len = 0, !.cursor = 0], e.len)

\* a faulty editor: a character that finds the line full is dropped, and
\* the line is kept
TypeKeepsLine(e, ch) ==
  IF e.len < MAX_CMD_LEN - 1
    THEN IF e.cursor < e.len
           THEN redraw([e EXCEPT !.buf = [j \in 1 .. RX_BUF_SZ |->
                                            IF j = e.cursor + 1 THEN ch
                                            ELSE IF j > e.cursor + 1
                                                    /\ j <= e.len + 1
                                              THEN e.buf[j - 1] ELSE e.buf[j]],
                                 !.len = @ + 1, !.cursor = @ + 1], e.len)
           ELSE Edited([e EXCEPT !.buf[e.len + 1] = ch, !.len = @ + 1,
                                 !.cursor = e.len + 1], <<Echo(ch)>>)
    ELSE [e |-> e, out |-> <<Msg("!! character-overflow"), Msg("> ")>>,
          over |-> TRUE]

\* if(isprint(ch)){ if(len<MAX_CMD_LEN-1){ ... }else{ ... } }
Type(e, ch) ==
  IF e.len < MAX_CMD_LEN - 1
    THEN IF e.cursor < e.len
           THEN redraw([e EXCEPT !.buf = [j \in 1 .. RX_BUF_SZ |->
                                            IF j = e.cursor + 1 THEN ch
                                            ELSE IF j > e.cursor + 1
                                                    /\ j <= e.len + 1
                                              THEN e.buf[j - 1] ELSE e.buf[j]],
                                 !.len = @ + 1, !.cursor = @ + 1], e.len)
           ELSE Edited([e EXCEPT !.buf[e.len + 1] = ch, !.len = @ + 1,
                                 !.cursor = e.len + 1], <<Echo(ch)>>)
    ELSE [e |-> [e EXCEPT !.len = 0, !.cursor = 0],
          out |-> <<Msg("!! character-overflow"), Msg("> ")>>, over |-> TRUE]

\* the keys other than the end of a line and the escape
EditKey(e, ch) ==
  IF ch \in {"BS", "DEL"} THEN del(e)
  ELSE IF ch = "NAK" THEN kill(e)
  ELSE IF isprint(ch) THEN Type(e, ch)
  ELSE Edited(e, <<>>)

\* strcpy(gLineBuf, history)
Recall(e) ==
  [e EXCEPT !.buf = [j \in 1 .. RX_BUF_SZ |->
                       IF j <= Len(e.history) THEN e.history[j]
                       ELSE IF j = Len(e.history) + 1 THEN NUL ELSE e.buf[j]],
            !.len = Len(e.history), !.cursor = Len(e.history)]

\* the escape: seq is the bytes that follow it within the read timeout, two
\* at most
EditEsc(e, seq) ==
  IF Len(seq) < 2 \/ seq[1] # "[" THEN Edited(e, <<>>)
  ELSE IF seq[2] = "A"
    THEN IF e.hasHistory THEN redraw(Recall(e), e.len) ELSE Edited(e, <<>>)
  ELSE IF seq[2] = "B" THEN redraw([e EXCEPT !.len = 0, !.cursor = 0], e.len)
  ELSE IF seq[2] = "C"
    THEN IF e.cursor < e.len
           THEN Edited([e EXCEPT !.cursor = @ + 1], <<Echo(e.buf[e.cursor + 1])>>)
           ELSE Edited(e, <<>>)
  ELSE IF seq[2] = "D"
    THEN IF e.cursor > 0
           THEN Edited([e EXCEPT !.cursor = @ - 1], <<Msg("\\b")>>)
           ELSE Edited(e, <<>>)
  ELSE Edited(e, <<>>)

\* the step of the loop for the result r of an editing key
Edit(r) ==
  /\ pc = <<"uart", 0>>
  /\ fault = ""
  /\ edit' = r.e
  /\ out' = r.out
  /\ errorCount' = IF r.over THEN [errorCount EXCEPT !.overflow = AddI32(@, 1)]
                    ELSE errorCount
  /\ pc' = <<"cbTest", 0>>
  /\ log' = <<>>
  /\ UNCHANGED <<registers, scriptLines, cb, ticker, fault, cbG, tkG, flag,
                 pending, arrived, polled, hwk4>>

\* if(ch=='\r'||ch=='\n'){ ... }
UartEnter ==
  /\ pc = <<"uart", 0>>
  /\ fault = ""
  /\ IF edit.len # 0
       THEN Commit(With(handleLine(St(<<"uart", 0>>),
                                   CStr([edit.buf EXCEPT ![edit.len + 1] = NUL]),
                                   1),
                        LAMBDA st : [st EXCEPT !.out = <<Msg("\\r\\n")>> \o @
                                                         \o <<Msg("> ")>>]))
       ELSE /\ UNCHANGED tables
            /\ out' = <<Msg("\\r\\n"), Msg("> ")>>
  /\ edit' = IF edit.len # 0
               THEN [edit EXCEPT !.buf[edit.len + 1] = NUL,
                                 !.history = CStr(Take(edit.buf, edit.len)),
                                 !.hasHistory = TRUE,
                                 !.len = 0, !.cursor = 0]
               ELSE [edit EXCEPT !.len = 0, !.cursor = 0]
  /\ pc' = <<"cbTest", 0>>
  /\ log' = <<>>
  /\ UNCHANGED <<flag, pending, arrived, polled, hwk4>>

\* the pass of the loop that reads the byte ch
UartKey(ch) ==
  IF ch \in {"\r", "\n"} THEN UartEnter ELSE Edit(EditKey(edit, ch))

\* the pass of the loop that reads the escape and the bytes seq after it
UartEsc(seq) == Edit(EditEsc(edit, seq))

(***************************************************************************)
(* The lines typed at the UART.                                            *)
(***************************************************************************)
\* -print x
PrintX == Words(<<Cmd(Word.print), Word.x>>)

\* -callback IDX COUNT PAYLOAD
CallbackLine(idx, cnt, payload) ==
  Words(<<Cmd(Word.callback), NumStr(idx), NumStr(cnt), payload>>)

\* -callback IDX 0
CallbackOff(idx) == Words(<<Cmd(Word.callback), NumStr(idx), NumStr(0)>>)

\* -ticker IDX DELAY PERIOD COUNT PAYLOAD
TickerLine(idx, delay, period, cnt, payload) ==
  Words(<<Cmd(Word.ticker), NumStr(idx), NumStr(delay), NumStr(period),
          NumStr(cnt), payload>>)

\* -ticker IDX 0 0 0
TickerOff(idx) ==
  Words(<<Cmd(Word.ticker), NumStr(idx), NumStr(0), NumStr(0), NumStr(0)>>)

\* -script N w PAYLOAD
ScriptWrite(n, payload) ==
  Words(<<Cmd(Word.script), NumStr(n), Word.w, payload>>)

\* -script N x
ScriptRun(n) == Words(<<Cmd(Word.script), NumStr(n), Word.x>>)

\* -script N c
ScriptClear(n) == Words(<<Cmd(Word.script), NumStr(n), Word.c>>)

\* -script N
ScriptShow(n) == Words(<<Cmd(Word.script), NumStr(n)>>)

\* -NAME aaa...a, a line of n characters
TextLine(name, n) ==
  Words(<<Cmd(name), [i \in 1 .. (n - Len(name)) - 2 |-> "a"]>>)

\* -reg OP DST SRC
RegLine(op, dst, src) == Words(<<Cmd(Word.reg), op, dst, src>>)

\* the operand rN
Reg(n) == <<"r">> \o DecStr(n)

\* the operand #V, V given by its text
Imm(v) == <<"#">> \o v

\* the operand @A, A given by its text
Mem(a) == <<"@">> \o a

\* -memr A
MemrLine(a) == Words(<<Cmd(Word.memr), a>>)

\* the eight hexadecimal digits of the address with the 16-bit halves hi
\* and lo, as an operator types them
HexStr(hi, lo) ==
  LET h == <<"0", "1", "2", "3", "4", "5", "6", "7", "8", "9",
             "a", "b", "c", "d", "e", "f">>
      Four(n) == <<h[(n \div 4096) + 1], h[((n \div 256) % 16) + 1],
                   h[((n \div 16) % 16) + 1], h[(n % 16) + 1]>>
  IN Four(hi) \o Four(lo)

\* -if A COND B ? REST
IfLine(a, c, b, rest) == Words(<<Cmd(Word.if), a, c, b, <<"?">>, rest>>)

\* DESTT : DESTF
Else(destt, destf) == Words(<<destt, <<":">>, destf>>)

\* -print hi and -print lo
PrintHi == Words(<<Cmd(Word.print), <<"h", "i">>>>)

PrintLo == Words(<<Cmd(Word.print), <<"l", "o">>>>)

\* the main loop
CbLoop == \E k \in CbIdx : CbTest(k) \/ CbSvc(k) \/ CbPost(k)

TkLoop ==
  \/ TkTest
  \/ TkClear
  \/ \E i \in 0 .. MAX_TICKERS : TkSweep(i)
  \/ \E i \in TickerIdx : TkPost(i)

Loop == CbLoop \/ TkLoop \/ UartIdle

(***************************************************************************)
(* Spec: callback 0 and ticker 0 are armed, re-armed and disabled from the *)
(* UART and from their own payloads; the periodic timer and the ticker     *)
(* timer interrupt.                                                        *)
(***************************************************************************)
Spec ==
  /\ Init
  /\ [][\/ \E f \in {"tickFlag", "tickerFlag"} : Isr(f)
        \/ Loop
        \/ \E line \in
             ({CallbackLine(0, c, PrintX) : c \in {0 - 1, 1}}
                \cup {TickerLine(0, 1, 2, 0 - 1, PrintX), TickerLine(0, 0, 1, 1, PrintX)}
                \cup {CallbackLine(0, 1, CallbackOff(0)),
                      TickerLine(0, 0, 1, 0 - 1, TickerOff(0))}
                \cup {CallbackOff(0), TickerOff(0)}) :
             UartLine(line)]_vars

(***************************************************************************)
(* SpecCb: the callbacks of the periodic timer and of switch 1, armed with *)
(* the counts 1 .. MaxCount; callback 0 is also armed with a payload that  *)
(* arms callback 0 again, and disabled.  No ticker is armed and the ticker *)
(* timer is stopped.                                                       *)
(***************************************************************************)
SpecCb ==
  /\ Init
  /\ [][\/ \E f \in {"tickFlag", "sw1Flag"} : Isr(f)
        \/ CbLoop
        \/ TkTest
        \/ UartIdle
        \/ \E line \in
             ({CallbackLine(k, c, PrintX) : k \in {0, 1}, c \in 1 .. MaxCount}
                \cup {CallbackLine(0, 2, CallbackLine(0, 1, PrintX)), CallbackOff(0)}) :
             UartLine(line)]_vars

(***************************************************************************)
(* SpecTk: ticker 0 armed with the delays 0 .. MaxDelay, the periods       *)
(* 1 .. MaxPeriod and the counts 1 .. MaxCount, with -ticker 0 0 10 3      *)
(* -print x, with a payload that arms ticker 1 during the sweep, and with  *)
(* payloads that arm ticker 0 itself with another delay, period and count; *)
(* only the ticker timer interrupts.                                       *)
(***************************************************************************)
\* the delay, period and count ticker 0 gives itself from its own payload
Rearms ==
  {[d |-> 0, p |-> 1, k |-> 1], [d |-> 2, p |-> 3, k |-> 3],
   [d |-> 0, p |-> 2, k |-> 0 - 1]}

SpecTk ==
  /\ Init
  /\ [][\/ Isr("tickerFlag")
        \/ \E k \in CbIdx : CbTest(k)
        \/ TkLoop
        \/ UartIdle
        \/ \E line \in
             ({TickerLine(0, d, p, c, PrintX) :
                 d \in 0 .. MaxDelay, p \in 1 .. MaxPeriod, c \in 1 .. MaxCount}
                \cup {TickerLine(0, 0, 10, 3, PrintX),
                      TickerLine(0, 0, 1, 1, TickerLine(1, 0, 1, 2, PrintX)),
                      TickerOff(0)}
                \cup {TickerLine(0, 1, 1, 2, TickerLine(0, r.d, r.p, r.k, PrintX)) :
                        r \in Rearms}) :
             UartLine(line)]_vars

(***************************************************************************)
(* SpecIsr: the four interrupt sources.  Two lines arm everything for      *)
(* ever: the payload of callback 0 arms callback 1, whose payload arms     *)
(* callback 2, and the payload of ticker 0 arms ticker 1.                  *)
(***************************************************************************)
SpecIsr ==
  /\ Init
  /\ [][\/ \E f \in Flags : Isr(f)
        \/ Loop
        \/ \E line \in
             ({CallbackLine(0, 0 - 1,
                            CallbackLine(1, 0 - 1, CallbackLine(2, 0 - 1, PrintX))),
               TickerLine(0, 0, 1, 0 - 1, TickerLine(1, 0, 1, 0 - 1, PrintX))}) :
             UartLine(line)]_vars

(***************************************************************************)
(* SpecFair: the periodic timer and the ticker timer interrupt, callback 0 *)
(* and ticker 0 are armed for ever, and the main loop never stops: it is   *)
(* the body of for(;;), and none of its steps blocks.  Nothing is assumed  *)
(* of the interrupts.                                                      *)
(***************************************************************************)
Sources == {"tickFlag", "tickerFlag"}

SpecFair ==
  /\ Init
  /\ [][\/ \E f \in Sources : Isr(f)
        \/ Loop
        \/ \E line \in
             ({CallbackLine(0, 0 - 1, PrintX), TickerLine(0, 0, 1, 0 - 1, PrintX)}) :
             UartLine(line)]_vars
  /\ WF_vars(Loop)

(***************************************************************************)
(* SpecScript: the script store.  Slot 0 is loaded with -print x, slot 1   *)
(* with a line that clears slot 1, slot 2 with a line that executes slot   *)
(* 2; the slots are executed from the UART and from the payload of         *)
(* callback 0, which is also armed with a payload that arms it again;      *)
(* ticker 0 prints.                                                        *)
(***************************************************************************)
ScriptSlots == 0 .. 2

SpecScript ==
  /\ Init
  /\ [][\/ \E f \in {"tickFlag", "tickerFlag"} : Isr(f)
        \/ Loop
        \/ \E line \in
             ({ScriptWrite(0, PrintX), ScriptWrite(1, ScriptClear(1)),
               ScriptWrite(2, ScriptRun(2)), ScriptClear(0), ScriptClear(2)}
                \cup {ScriptRun(n) : n \in ScriptSlots}
                \cup {CallbackLine(0, 0 - 1, ScriptRun(0)),
                      CallbackLine(0, 1, PrintX),
                      CallbackLine(0, 0 - 1, CallbackLine(0, 0 - 1, PrintX)),
                      TickerLine(0, 0, 1, 1, PrintX)}) :
             UartLine(line)]_vars

(***************************************************************************)
(* SpecLong: texts at and beyond the capacity of the entries.  Callback 0  *)
(* and ticker 0 are armed with a payload of 70 characters, more than       *)
(* either holds, and with one of 47, which both hold; slot 0 is loaded     *)
(* with a line of 115 characters, the longest a line of the UART carries;  *)
(* the callback and the ticker fire and the slot is executed.  -if is      *)
(* given a true clause of 47, 62, 63 and 70 characters, with a false       *)
(* clause after a ':' and without one.                                     *)
(***************************************************************************)
SpecLong ==
  /\ Init
  /\ [][\/ \E f \in {"tickFlag", "tickerFlag"} : Isr(f)
        \/ Loop
        \/ \E n \in {47, 70} :
             \/ UartLine(CallbackLine(0, 1, TextLine(Word.print, n)))
             \/ UartLine(TickerLine(0, 0, 1, 1, TextLine(Word.print, n)))
        \/ UartLine(ScriptWrite(0, TextLine(Word.print, 115)))
        \/ UartLine(ScriptRun(0))
        \/ \E n \in {47, 62, 63, 70} :
             \/ UartLine(IfLine(Reg(1), <<"=">>, Reg(1),
                                Else(TextLine(Word.print, n), PrintLo)))
             \/ UartLine(IfLine(Reg(1), <<"=">>, Reg(1),
                                TextLine(Word.print, n)))]_vars

(***************************************************************************)
(* SpecStore: the script store alone.  The slots at the two ends of the    *)
(* table are shown, written, executed and cleared, and so are the indexes  *)
(* 64 and -1.  Slot 0 is loaded with a line that prints, with a line that  *)
(* clears slot 1, with a line that loads slot 1, and with comment lines of *)
(* 74, 75 and 115 characters (the longest a line of the UART can carry);   *)
(* the other slots are loaded with lines that print.                       *)
(***************************************************************************)
StoreSlots == {0, 1, 2, 62, 63}

\* the texts written to slot n
StoreTexts(n) ==
  IF n = 0 THEN {PrintX, ScriptClear(1), ScriptWrite(1, PrintHi),
                 TextLine(Word.rem, 74), TextLine(Word.rem, 75),
                 TextLine(Word.rem, 115)}
  ELSE IF n \in {1, 63} THEN {PrintHi}
  ELSE IF n = 2 THEN {PrintLo}
  ELSE {PrintX}

SpecStore ==
  /\ Init
  /\ [][\/ \E k \in CbIdx : CbTest(k)
        \/ TkTest
        \/ UartIdle
        \/ \E n \in StoreSlots \cup {64, 0 - 1} :
             \/ UartLine(ScriptShow(n))
             \/ UartLine(ScriptRun(n))
             \/ UartLine(ScriptClear(n))
             \/ \E t \in StoreTexts(n) : UartLine(ScriptWrite(n, t))]_vars

(***************************************************************************)
(* SpecArgs: the dispatcher and the arguments of -callback and -ticker.    *)
(* Every command of the table is typed, and lines with no marker, with a   *)
(* name that is not in the table, and of blanks only.  Callback 1          *)
(* and ticker 1 are armed; -callback and -ticker are then given indexes    *)
(* outside their tables, too few tokens, tokens that are no numbers, and   *)
(* the word clear with an index; -print is typed with one and with two     *)
(* blanks or tabs before its text.  No interrupt occurs: nothing fires.    *)
(***************************************************************************)
\* the commands of the table, each with the arguments it is typed with
TableLines ==
  {[name |-> n, args |-> NULL] :
     n \in OutputOnly \cup {Word.callback, Word.ticker, Word.script,
                            Word.print, Word.rem}}
    \cup {[name |-> Word.print, args |-> Ptr(Word.x)],
          [name |-> Word.rem, args |-> Ptr(Word.x)],
          [name |-> Word.memr, args |-> Ptr(<<"0">>)],
          [name |-> Word.reg,
           args |-> Ptr(Words(<<Word.mov, Reg(0), Imm(<<"0">>)>>))],
          [name |-> Word.if,
           args |-> Ptr(Words(<<Reg(0), <<"=">>, Reg(0), <<"?">>, PrintX>>))]}

\* the line of a command and its arguments
TableLine(c) ==
  IF c.args.null THEN Cmd(c.name) ELSE Words(<<Cmd(c.name), c.args.s>>)

\* lines whose first token is no command: print x, x, -, -HELP, -helpx,
\* -Print x, --print x, -prin
UnknownLines ==
  {Words(<<Word.print, Word.x>>), Word.x, <<"-">>,
   Cmd(<<"H", "E", "L", "P">>), Cmd(Word.help \o Word.x),
   Words(<<Cmd(<<"P", "r", "i", "n", "t">>), Word.x>>),
   Words(<<Cmd(Cmd(Word.print)), Word.x>>), Cmd(<<"p", "r", "i", "n">>)}

\* -callback and -ticker with an index outside the table: 3, -1, 16, -1
BadIndexLines ==
  {CallbackLine(MAX_CB, 1, PrintX), CallbackLine(0 - 1, 1, PrintX),
   TickerLine(MAX_TICKERS, 0, 1, 1, PrintX),
   TickerLine(0 - 1, 0, 1, 1, PrintX)}

\* -callback and -ticker with too few tokens, or with a token that is no
\* number where the index or the count stands
SyntaxLines ==
  {Words(<<Cmd(Word.callback), <<"1">>>>),
   Words(<<Cmd(Word.callback), <<"1">>, Word.x, PrintX>>),
   Words(<<Cmd(Word.callback), Word.x, <<"2">>, PrintHi>>),
   Words(<<Cmd(Word.ticker), <<"1">>>>),
   Words(<<Cmd(Word.ticker), <<"1">>, <<"0">>, <<"1">>>>),
   Words(<<Cmd(Word.ticker), <<"1">>, <<"0">>, <<"1">>, Word.x, PrintX>>),
   Words(<<Cmd(Word.ticker), Word.x, <<"0">>, <<"1">>, <<"1">>, PrintHi>>)}

\* -callback clear IDX
ClearLine(idx) ==
  Words(<<Cmd(Word.callback), <<"c", "l", "e", "a", "r">>, NumStr(idx)>>)

SpecArgs ==
  /\ Init
  /\ [][\/ \E k \in CbIdx : CbTest(k)
        \/ TkTest
        \/ UartIdle
        \/ \E c \in TableLines : UartLine(TableLine(c))
        \/ \E line \in UnknownLines :
             (errorCount.unknown_cmd < MaxErrors /\ UartLine(line))
        \/ \E line \in {<<" ">>, <<" ", "\t">>} : UartLine(line)
        \/ \E line \in {CallbackLine(1, 2, PrintX),
                        TickerLine(1, 0, 1, 2, PrintX)} : UartLine(line)
        \/ \E line \in BadIndexLines \cup SyntaxLines : UartLine(line)
        \/ \E idx \in CbIdx : UartLine(ClearLine(idx))
        \/ \E w \in {<<" ">>, <<" ", " ">>, <<"\t", " ">>},
              a \in {<<>>, Word.x, Words(<<Word.x, PrintX>>)} :
             UartLine(Cmd(Word.print) \o w \o a)]_vars

(***************************************************************************)
(* SpecReg: the register machine and -memr.  Register 0 is loaded with     *)
(* immediates inside and beyond the range of an int32_t, register 1 with   *)
(* 0 and -1, register 31 with two addresses; register 0 is divided by an immediate, by register 1 and  *)
(* by a word of memory; the destination and the source are also given as   *)
(* tokens that are no operand; a source is read from memory at an address  *)
(* typed in or held in register 31; and -memr is given addresses on both   *)
(* sides of the ends of flash and of SRAM.                                 *)
(***************************************************************************)
\* the immediates: inside the range of an int32_t, and 2147483648 and
\* 4294967295 beyond it
ImmTexts ==
  {NumStr(v) : v \in {0, 5, 0 - 1, 536870912, INT_MAX, INT_MIN}}
    \cup {Append(DecStr(214748364), "8"), Append(DecStr(429496729), "5")}

\* sources of a division: #0, #1, r1, @0
DivSources == {Imm(NumStr(0)), Imm(NumStr(1)), Reg(1), Mem(NumStr(0))}

\* destinations that are no register literal (r, rx, r32, x0, #1), sources
\* that are no operand (zz, r32, #5x, #), and xchg with r32
BadLines ==
  {RegLine(Word.mov, dst, Imm(NumStr(7))) :
     dst \in {<<"r">>, <<"r", "x">>, Reg(32), <<"x", "0">>, Imm(NumStr(1))}}
    \cup {RegLine(Word.mov, Reg(0), src) :
            src \in {<<"z", "z">>, Reg(32), Imm(<<"5", "x">>), <<"#">>}}
    \cup {RegLine(Word.xchg, Reg(0), Reg(32))}

\* the high halves of the addresses given to -memr: the ends of flash
\* (0x0008) and of SRAM (0x2000, 0x2008), and their neighbours
MemrHi == {0, 7, 8, 8191, 8192, 8199, 8200, 61440, 65535}

\* the low halves of the addresses given to -memr
MemrLo == {0, 65535}

SpecReg ==
  /\ Init
  /\ [][\/ \E k \in CbIdx : CbTest(k)
        \/ TkTest
        \/ UartIdle
        \/ \E line \in
             ({RegLine(Word.mov, Reg(0), Imm(v)) : v \in ImmTexts}
                \cup {RegLine(Word.mov, Reg(31), Imm(NumStr(v))) : v \in {0 - 1, 536870912}}
                \cup {RegLine(Word.mov, Reg(1), Imm(NumStr(v))) : v \in {0, 0 - 1}}
                \cup {RegLine(op, Reg(d), src) :
                        op \in {Word.div, Word.rem}, d \in {0, 31}, src \in DivSources}
                \cup BadLines
                \cup {RegLine(Word.xchg, Reg(0), Reg(31)),
                      IfLine(Reg(31), <<"=">>, Reg(0), PrintX),
                      IfLine(Reg(0), <<"=">>, Reg(32), PrintX)}
                \cup {RegLine(Word.mov, Reg(0), src) :
                        src \in {Mem(Reg(31)), Mem(<<"x">> \o HexStr(8192, 0)),
                                 Mem(<<"x">> \o HexStr(12288, 0)),
                                 Mem(Append(DecStr(429496729), "5"))}}
                \cup {MemrLine(HexStr(hi, lo)) : hi \in MemrHi, lo \in MemrLo}) :
             UartLine(line)]_vars

(***************************************************************************)
(* SpecAlu: the arithmetic of the register machine.  Register 1 is loaded  *)
(* with 10 and -1 and register 2 with 3; add, sub, mul, and, ior, xor, max *)
(* and min are applied to register 1 with register 1 itself, register 2    *)
(* and the greatest int32_t as the source, and registers 1 and 2 are       *)
(* exchanged, with each other and with themselves, while register 2 holds  *)
(* 0 or 3.                                                                 *)
(***************************************************************************)
\* the sources: the token, the register it names (-1 for an immediate) and
\* the value of an immediate
AluSources ==
  {[tok |-> Reg(n), reg |-> n, val |-> 0] : n \in {1, 2}}
    \cup {[tok |-> Imm(NumStr(INT_MAX)), reg |-> 0 - 1, val |-> INT_MAX]}

SpecAlu ==
  /\ Init
  /\ [][\/ \E k \in CbIdx : CbTest(k)
        \/ TkTest
        \/ UartIdle
        \/ \E v \in {10, 0 - 1} :
             UartLine(RegLine(Word.mov, Reg(1), Imm(NumStr(v))))
        \/ UartLine(RegLine(Word.mov, Reg(2), Imm(NumStr(3))))
        \/ \E op \in BinOps \ {Word.mov, Word.div, Word.rem}, s \in AluSources :
             (/\ registers[1] \in 0 - MaxReg .. MaxReg
              /\ registers[2] \in {0, 3}
              /\ UartLine(RegLine(op, Reg(1), s.tok)))
        \/ \E a \in {1, 2}, b \in {1, 2} :
             (/\ registers[1] \in 0 - MaxReg .. MaxReg
              /\ registers[2] \in {0, 3}
              /\ UartLine(RegLine(Word.xchg, Reg(a), Reg(b))))]_vars

(***************************************************************************)
(* SpecEdit: the line editor.  The operator types the line -rem aaa...a of *)
(* MAX_CMD_LEN - 1 characters, the character that belongs at the cursor,   *)
(* and one character more, and goes on with no line but that one once it   *)
(* is longer than a short line; while the line is short or full the        *)
(* operator also ends it, deletes, kills, recalls the last line and moves  *)
(* the cursor.                                                             *)
(***************************************************************************)
\* -rem aaa...a
FullLine == TextLine(Word.rem, MAX_CMD_LEN - 1)

\* the character the operator types at the cursor
KeyAt(c) == IF c < MAX_CMD_LEN - 1 THEN FullLine[c + 1] ELSE "a"

\* the line is short or full
Quiet == edit.len <= MaxEdit \/ edit.len = MAX_CMD_LEN - 1

SpecEdit ==
  /\ Init
  /\ [][\/ \E k \in CbIdx : CbTest(k)
        \/ TkTest
        \/ UartIdle
        \/ (/\ edit.len < MAX_CMD_LEN - 1 \/ errorCount.overflow < MaxErrors
            /\ \/ edit.len <= MaxEdit
               \/ Take(edit.buf, edit.len) = Take(FullLine, edit.len)
            /\ UartKey(KeyAt(edit.cursor)))
        \/ \E ch \in {"\r", "\n"} :
             (/\ Quiet
              /\ errorCount.unknown_cmd < MaxErrors
              /\ UartKey(ch))
        \/ \E ch \in {"BS", "DEL", "NAK", "\t"} : (Quiet /\ UartKey(ch))
        \/ \E seq \in {<<>>, <<"[">>, <<"O", "A">>, <<"[", "A">>, <<"[", "B">>,
                        <<"[", "C">>, <<"[", "D">>} :
             (/\ Quiet
              /\ seq = <<"[", "D">> => edit.len - edit.cursor < MaxEdit
              /\ UartEsc(seq))]_vars

(***************************************************************************)
(* SpecIf: -if.  Register 1 is loaded with 0, 5, 10, -1 and the least      *)
(* int32_t; it and the immediates 5 and -1 are compared by >, < and =,     *)
(* with both destinations, with DESTT only, with an empty DESTT, and with  *)
(* destinations that load register 0; and -if is given operands that are   *)
(* none, a COND that is none, too few tokens and no question mark.         *)
(* Register 1 is also loaded with, and compared for equality with,         *)
(* decimal and hexadecimal immediates.                                     *)
(***************************************************************************)
\* the operands of the comparisons: the token, and the value of an
\* immediate
IfOperands ==
  {[tok |-> Reg(1), imm |-> FALSE, val |-> 0]}
    \cup {[tok |-> Imm(NumStr(v)), imm |-> TRUE, val |-> v] : v \in {5, 0 - 1}}

Conds == {">", "<", "="}

\* what follows the question mark: the text, and the lines it makes the
\* destination of a true and of a false comparison
IfRests ==
  {[text |-> Else(PrintHi, PrintLo), destt |-> PrintHi, destf |-> PrintLo],
   [text |-> PrintHi, destt |-> PrintHi, destf |-> <<>>],
   [text |-> Words(<<<<":">>, PrintLo>>), destt |-> <<>>, destf |-> PrintLo],
   [text |-> Else(RegLine(Word.mov, Reg(0), Imm(NumStr(7))),
                  RegLine(Word.mov, Reg(0), Imm(NumStr(0)))),
    destt |-> RegLine(Word.mov, Reg(0), Imm(NumStr(7))),
    destf |-> RegLine(Word.mov, Reg(0), Imm(NumStr(0)))]}

\* operands that are none: x1, #5x, r32, r, rx, #
BadOperands ==
  {<<"x", "1">>, Imm(<<"5", "x">>), Reg(32), <<"r">>, <<"r", "x">>, <<"#">>}

MalformedIf ==
  {IfLine(a, <<"<">>, Imm(NumStr(5)), PrintHi) : a \in BadOperands}
    \cup {IfLine(Imm(NumStr(5)), <<">">>, b, PrintHi) : b \in BadOperands}
    \cup {IfLine(Reg(1), <<"!">>, Imm(NumStr(5)), PrintHi),
          Words(<<Cmd(Word.if), Reg(1), <<">">>>>),
          Words(<<Cmd(Word.if), Reg(1), <<">">>, Imm(NumStr(5)), PrintHi>>)}

\* immediates as the grammar of the register machine writes them, decimal
\* and hexadecimal, each with the number it stands for: 5, -1, 010, x10,
\* X1f, x7fffffff
IfImms ==
  {[tok |-> Imm(<<"5">>), val |-> 5],
   [tok |-> Imm(<<"-", "1">>), val |-> 0 - 1],
   [tok |-> Imm(<<"0", "1", "0">>), val |-> 10],
   [tok |-> Imm(<<"x", "1", "0">>), val |-> 16],
   [tok |-> Imm(<<"X", "1", "f">>), val |-> 31],
   [tok |-> Imm(<<"x">> \o HexStr(32767, 65535)), val |-> INT_MAX]}

SpecIf ==
  /\ Init
  /\ [][\/ \E k \in CbIdx : CbTest(k)
        \/ TkTest
        \/ UartIdle
        \/ \E v \in {0, 5, 10, 0 - 1, INT_MIN} :
             UartLine(RegLine(Word.mov, Reg(1), Imm(NumStr(v))))
        \/ \E a \in IfOperands, c \in Conds, b \in IfOperands, r \in IfRests :
             UartLine(IfLine(a.tok, <<c>>, b.tok, r.text))
        \/ \E line \in MalformedIf : UartLine(line)
        \/ \E i \in IfImms :
             \/ UartLine(RegLine(Word.mov, Reg(1), i.tok))
             \/ UartLine(IfLine(Reg(1), <<"=">>, i.tok, Else(PrintHi, PrintLo)))
             \/ UartLine(IfLine(i.tok, <<"=">>, Reg(1), Else(PrintHi, PrintLo)))]_vars

(***************************************************************************)
(* The properties.                                                         *)
(***************************************************************************)
\* the number of entries e in the log of the current iteration
Count(e) == Cardinality({n \in 1 .. Len(log) : log[n] = e})

\* callback k is armed with a positive count, and not by its own payload
CbFinite(k) == cbG[k].K > 0 /\ ~cbG[k].self

\* ticker i is armed with a positive count, and not by its own payload
TkFinite(i) == tkG[i].K > 0 /\ ~tkG[i].self

\* C1: a callback armed with a count K > 0, whose payload does not configure
\* the callback, was dispatched on each of the first K polls that found its
\* flag set since it was armed, and on no other; remaining is K minus the
\* number of dispatches, and the callback is inactive from the post step of
\* the K-th dispatch on.  (Under SpecCb.)
C1_CallbackFiresK ==
  \A k \in CbIdx : CbFinite(k) =>
    LET g == cbG[k]
        e == cb[k]
    IN IF pc = <<"cbSvc", k>>
         THEN /\ g.fired = Min(g.seen - 1, g.K)
              /\ e.remaining = g.K - g.fired
              /\ e.active = (g.fired < g.K)
       ELSE IF pc = <<"cbPost", k>>
         THEN /\ g.fired = Min(g.seen, g.K)
              /\ g.fired >= 1
              /\ e.remaining = g.K - g.fired + 1
              /\ e.active
       ELSE /\ g.fired = Min(g.seen, g.K)
            /\ e.remaining = g.K - g.fired
            /\ e.active = (g.fired < g.K)

\* a callback armed with K >= 2 was dispatched K times, is inactive, and a
\* later poll found its flag set
C1_Witness ==
  \E k \in CbIdx :
    /\ CbFinite(k)
    /\ cbG[k].K >= 2
    /\ cbG[k].fired = cbG[k].K
    /\ cbG[k].seen = cbG[k].K + 1
    /\ ~cb[k].active
    /\ cb[k].remaining = 0

\* C2: a ticker armed with a count K > 0, whose payload does not configure
\* the ticker, is dispatched at most K times; count is K minus the number of
\* dispatches; the ticker is active while fewer than K dispatches were made
\* and inactive from the post step that follows the K-th dispatch on.
\* (Under SpecTk.)
C2_TickerFiresK ==
  \A i \in TickerIdx : TkFinite(i) =>
    LET g == tkG[i]
        e == ticker[i]
    IN IF pc = <<"tkPost", i>>
         THEN /\ g.fired >= 1
              /\ g.fired <= g.K
              /\ e.count = g.K - g.fired + 1
              /\ e.active
       ELSE /\ g.fired <= g.K
            /\ e.count = g.K - g.fired
            /\ e.active = (g.fired < g.K)

\* a ticker armed with K >= 2 was dispatched K times and is inactive
C2_Witness ==
  \E i \in TickerIdx :
    /\ TkFinite(i)
    /\ tkG[i].K >= 2
    /\ tkG[i].fired = tkG[i].K
    /\ ~ticker[i].active
    /\ ticker[i].count = 0

\* a sweep step from entry i that ends at entry j (MAX_TICKERS: the end of
\* the table) passed no ticker armed for ever whose countdown was due
NonePassed(i, j) ==
  \A m \in i .. j - 1 :
    ticker[m].active /\ tkG[m].K < 0 => ticker[m].ticks_left \notin {0, 1}

\* C3: while an entry is armed with a negative count (no command with count
\* 0 was executed for it since), it is active and its count is the one it
\* was armed with; a poll that finds the flag of such a callback set
\* dispatches it, and the sweep dispatches such a ticker whenever its
\* countdown is due.  (Under Spec.)
C3_InfiniteKeepsFiring ==
  /\ [](/\ \A k \in CbIdx :
             cbG[k].K < 0 => cb[k].active /\ cb[k].remaining = cbG[k].K
        /\ \A i \in TickerIdx :
             tkG[i].K < 0 => ticker[i].active /\ ticker[i].count = tkG[i].K)
  /\ [][/\ \A k \in CbIdx :
             pc = <<"cbSvc", k>> /\ cbG[k].K < 0 /\ pc' # pc
               => pc' = <<"cbPost", k>> /\ log' = Append(log, <<"cb", k>>)
        /\ \A i \in TickerIdx :
             pc = <<"tkEntry", i>> /\ pc' # pc
               => IF pc'[1] = "tkPost"
                    THEN /\ NonePassed(i, pc'[2])
                         /\ ticker[pc'[2]].ticks_left \in {0, 1}
                         /\ log' = Append(log, <<"tk", pc'[2]>>)
                    ELSE NonePassed(i, MAX_TICKERS)]_vars

\* callback 0 and ticker 0, both armed for ever, were dispatched in this
\* iteration, the ticker after a sweep that passed it
C3_Witness ==
  /\ cbG[0].K < 0
  /\ tkG[0].K < 0
  /\ Count(<<"cb", 0>>) = 1
  /\ pc = <<"tkPost", 0>>
  /\ ticker[0].period_ticks = 2
  /\ ticker[0].delay_ticks = 1

\* the firings due by the n-th tick for a delay d, a period p and a count c
Due(d, p, c, n) == Cardinality({j \in 1 .. c : Max(d, 1) + (j - 1) * p <= n})

\* C4: a ticker armed from the UART with a delay D >= 0, a period P >= 1
\* and a count K >= 1, whose payload does not configure it, has after the
\* n-th tick flag observed since it was armed been dispatched once for each
\* j in 1 .. K with max(D, 1) + (j - 1) * P <= n: the j-th dispatch is in
\* the sweep of tick max(D, 1) + (j - 1) * P.  (Under SpecTk.)
C4_TickerSchedule ==
  \A i \in TickerIdx :
    (/\ TkFinite(i)
     /\ ~tkG[i].mid
     /\ ticker[i].period_ticks >= 1
     /\ ticker[i].delay_ticks >= 0)
      => tkG[i].fired = Due(ticker[i].delay_ticks, ticker[i].period_ticks,
                            tkG[i].K, tkG[i].ticks)

\* -ticker 0 0 10 3 -print x was dispatched three times by tick 21 and is
\* inactive
C4_Witness ==
  /\ TkFinite(0)
  /\ ~tkG[0].mid
  /\ ticker[0].delay_ticks = 0
  /\ ticker[0].period_ticks = 10
  /\ tkG[0].K = 3
  /\ tkG[0].ticks = 21
  /\ tkG[0].fired = 3
  /\ ~ticker[0].active

\* C5: a -callback 0 0 or a -ticker 0 0 0 0 read from the UART leaves the
\* entry inactive, whatever it was; executed on an inactive entry it changes
\* nothing in the callback table, the ticker table and the error counters.
\* (Under Spec.)
C5_DisableIdempotent ==
  [][/\ UartLine(CallbackOff(0))
          => /\ ~cb'[0].active
             /\ ~cb[0].active
                  => cb' = cb /\ ticker' = ticker /\ errorCount' = errorCount
     /\ UartLine(TickerOff(0))
          => /\ ~ticker'[0].active
             /\ ~ticker[0].active
                  => cb' = cb /\ ticker' = ticker /\ errorCount' = errorCount
    ]_vars

\* a count of 0 was just read from the UART; callback 0 and ticker 0 are
\* inactive after having been armed for ever
C5_Witness ==
  /\ pc = <<"cbTest", 0>>
  /\ out = <<Msg("clr")>>
  /\ ~cb[0].active
  /\ cb[0].remaining < 0
  /\ ~ticker[0].active
  /\ ticker[0].count < 0

\* C6: no step changes remaining of a callback, or count or ticks_left of a
\* ticker, that is inactive before and after the step.  (Under Spec.)
C6_InactiveUntouched ==
  [][/\ \A k \in CbIdx :
          ~cb[k].active /\ ~cb'[k].active
            => cb'[k].remaining = cb[k].remaining
     /\ \A i \in TickerIdx :
          ~ticker[i].active /\ ~ticker'[i].active
            => /\ ticker'[i].count = ticker[i].count
               /\ ticker'[i].ticks_left = ticker[i].ticks_left
    ]_vars

\* the step of the main loop that clears flag f
ClearStep(f) ==
  IF f = "tickerFlag" THEN <<"tkClear", 0>>
  ELSE <<"cbSvc", CHOOSE k \in CbIdx : CbFlag(k) = f>>

\* C7: a step that sets a flag changes no other flag, no table of the shell
\* and not the place of the main loop; a step that clears a flag is the main
\* loop's clearing of that flag after it tested it.  (Under SpecIsr.)
C7_IsrFrame ==
  [][\A f \in Flags :
       /\ ~flag[f] /\ flag'[f]
            => /\ \A g \in Flags \ {f} : flag'[g] = flag[g]
               /\ UNCHANGED <<registers, scriptLines, cb, ticker, errorCount,
                              pc, out, fault>>
       /\ flag[f] /\ ~flag'[f]
            => /\ pc = ClearStep(f)
               /\ \A g \in Flags \ {f} : flag'[g] = flag[g]
    ]_vars

\* the four interrupts have occurred while entries are armed and the loop
\* is in the ticker sweep
C7_Witness ==
  /\ \A f \in Flags : flag[f]
  /\ cb[0].active
  /\ ticker[0].active
  /\ pc = <<"tkPost", 0>>

\* C8: an interrupt that occurred is followed by a test of its flag that
\* finds the flag set.  (Under SpecFair.)
C8_NoInterruptLost ==
  \A f \in Sources : pending[f] ~> (polled.f = f /\ ~pending[f])

\* C9: in an iteration of the main loop a callback is dispatched at most
\* once: not at all before the clearing of its flag, once when the loop is
\* at its post step, whatever the number n >= 1 of interrupts that had
\* arrived when the flag was tested; and a callback armed with a positive
\* count has remaining decremented once for each dispatch.  (Under SpecCb.)
C9_Coalesced ==
  \A k \in CbIdx :
    /\ Count(<<"cb", k>>) <= 1
    /\ pc = <<"cbSvc", k>>
         => polled.f = CbFlag(k) /\ polled.n >= 1 /\ Count(<<"cb", k>>) = 0
    /\ pc = <<"cbPost", k>>
         => polled.f = CbFlag(k) /\ polled.n >= 1 /\ Count(<<"cb", k>>) = 1
    /\ CbFinite(k)
         => cb[k].remaining
              = cbG[k].K - cbG[k].fired + (IF pc = <<"cbPost", k>> THEN 1 ELSE 0)

\* two or more interrupts had arrived when the flag was tested; the
\* callback, armed with the count 2, was dispatched once and the loop has
\* gone on to the next flag
C9_Witness ==
  \E k \in CbIdx :
    /\ pc = AfterCb(k)
    /\ polled = [f |-> CbFlag(k), n |-> 2]
    /\ Count(<<"cb", k>>) = 1
    /\ CbFinite(k)
    /\ cbG[k].K = 2
    /\ cbG[k].fired = 1
    /\ cb[k].remaining = 1

\* the place of a log entry in an iteration of the main loop
Rank(e) ==
  IF e[1] = "test"
    THEN CASE e[2] = "tickFlag" -> 0
           [] e[2] = "sw1Flag" -> 2
           [] e[2] = "sw2Flag" -> 4
           [] e[2] = "tickerFlag" -> 6
  ELSE IF e[1] = "cb" THEN 2 * e[2] + 1
  ELSE 7 + e[2]

\* C10: the log of an iteration is in the order test of tickFlag, callback
\* 0, test of sw1Flag, callback 1, test of sw2Flag, callback 2, test of
\* tickerFlag, tickers in ascending index, each at most once; a callback is
\* dispatched right after the test of its flag; at a post step the last
\* entry is the dispatch it follows; the UART is read after the four tests.
\* (Under SpecIsr.)
C10_FixedOrder ==
  /\ \A n \in 1 .. Len(log) - 1 : Rank(log[n]) < Rank(log[n + 1])
  /\ \A n \in 1 .. Len(log) :
       /\ log[n][1] = "cb"
            => n > 1 /\ log[n - 1] = <<"test", CbFlag(log[n][2])>>
       /\ log[n][1] = "tk" => Count(<<"test", "tickerFlag">>) = 1
  /\ \A k \in CbIdx :
       pc = <<"cbPost", k>> => log # <<>> /\ log[Len(log)] = <<"cb", k>>
  /\ \A i \in TickerIdx :
       pc = <<"tkPost", i>> => log # <<>> /\ log[Len(log)] = <<"tk", i>>
  /\ pc = <<"uart", 0>> => \A f \in Flags : Count(<<"test", f>>) = 1

\* the loop is at the UART after it dispatched the three callbacks and the
\* tickers 0 and 1 in one iteration
C10_Witness ==
  /\ pc = <<"uart", 0>>
  /\ log = << <<"test", "tickFlag">>, <<"cb", 0>>, <<"test", "sw1Flag">>,
              <<"cb", 1>>, <<"test", "sw2Flag">>, <<"cb", 2>>,
              <<"test", "tickerFlag">>, <<"tk", 0>>, <<"tk", 1>> >>

(***************************************************************************)
(* C11.  Firing a stored payload does not change the stored text: after    *)
(* the dispatch of the payload of a callback or of a ticker, and after     *)
(* -script N x, the payload of the entry that fired and the lines of the   *)
(* slots are what they were, when the text dispatched is not a command     *)
(* that writes the entry it comes from.                                    *)
(***************************************************************************)
\* stored lines that do not rewrite the entry or slot that holds them
KeepsItsEntry == {PrintX, ScriptRun(0)}

C11_StoredTextKept ==
  [][/\ \A k \in CbIdx :
          (pc = <<"cbSvc", k>> /\ pc' = <<"cbPost", k>>
             /\ cb[k].payload \in KeepsItsEntry)
            => cb'[k].payload = cb[k].payload
     /\ \A i \in TickerIdx :
          (pc[1] = "tkEntry" /\ pc' = <<"tkPost", i>>
             /\ ticker[i].payload \in KeepsItsEntry)
            => ticker'[i].payload = ticker[i].payload
     /\ \A n \in ScriptSlots :
          UartLine(ScriptRun(n))
            => \A m \in 0 .. SCRIPT_LINES - 1 :
                 scriptLines[m] \in KeepsItsEntry
                   => scriptLines'[m] = scriptLines[m]]_vars

\* callback 0 has fired -script 0 x, slot 0 has printed, and both texts
\* are still stored
C11_Witness ==
  /\ pc = <<"cbPost", 0>>
  /\ cb[0].payload = ScriptRun(0)
  /\ scriptLines[0] = PrintX
  /\ fault = ""
  /\ \E n \in 1 .. Len(out) : out[n] = [msg |-> "print", text |-> Word.x]

(***************************************************************************)
(* C12.  Every dispatch returns: no call of the dispatcher nests without   *)
(* end.  (Violated: a slot that holds -script N x for its own N calls the  *)
(* dispatcher again and again, until the stack is exhausted.)              *)
(***************************************************************************)
C12_DispatchTerminates == fault # "stack overflow"

(***************************************************************************)
(* C13.  -reg mov r0 #V leaves register 0 equal to V reduced modulo 2^32   *)
(* into the range of an int32_t, and the other registers as they were.     *)
(* (Violated: strtol does not reduce a V beyond that range, it returns     *)
(* LONG_MAX or LONG_MIN.)                                                  *)
(***************************************************************************)
\* the decimal number with the text t, modulo 2^32, as an int32_t
Wrap32(t) ==
  LET neg == t # <<>> /\ Head(t) = "-"
      r == BaseDigitsU(IF neg THEN Tail(t) ELSE t, 10, 0, 0, 0, FALSE)
      pat == Pattern([r EXCEPT !.over = FALSE])
  IN IF neg THEN NegI32(pat) ELSE pat

C13_MovImmediate ==
  [][\A v \in ImmTexts :
       UartLine(RegLine(Word.mov, Reg(0), Imm(v)))
         => registers' = [registers EXCEPT ![0] = Wrap32(v)]]_vars

(***************************************************************************)
(* C14.  -reg div and -reg rem with a source whose value is zero (an       *)
(* immediate, a register, a word of memory) write the diagnostic div0 and  *)
(* leave all registers as they were.                                       *)
(***************************************************************************)
\* the source operand src has the value zero
ZeroSource(src) ==
  \/ src = Imm(NumStr(0))
  \/ src = Reg(1) /\ registers[1] = 0
  \/ src = Mem(NumStr(0)) /\ MemWord(0) = 0

C14_DivZeroKeeps ==
  [][\A op \in {Word.div, Word.rem}, d \in {0, 31}, src \in DivSources :
       (UartLine(RegLine(op, Reg(d), src)) /\ ZeroSource(src))
         => registers' = registers /\ out' = <<Msg("div0")>>]_vars

\* a division by zero was refused, of a destination that is not zero
C14_Witness ==
  /\ out = <<Msg("div0")>>
  /\ registers[0] # 0
  /\ registers[31] # 0

(***************************************************************************)
(* C15.  A -reg command whose DST is no register literal, or whose SRC is  *)
(* no operand, writes a bad-operand diagnostic and changes no register.    *)
(* (Violated: atoi takes r and rx for r0.)                                 *)
(***************************************************************************)
C15_BadOperandRejected ==
  [][\A line \in BadLines :
       UartLine(line)
         => /\ registers' = registers
            /\ out' \in {<<Msg("Bad src")>>, <<Msg("Bad dst")>>,
                          <<Msg("Bad reg")>>}]_vars

(***************************************************************************)
(* C16.  No access of the register bank has an index outside 0 .. 31: the  *)
(* register machine and -if check the index before they use it.            *)
(***************************************************************************)
C16_BankIndexChecked == fault # "registers index"

\* register 31 was written, and r32 has just been refused
C16_Witness ==
  /\ registers[31] # 0
  /\ out = <<Msg("Bad reg")>>
  /\ fault = ""

(***************************************************************************)
(* C17.  The register machine reads a word of memory only at an address    *)
(* that addrOK accepts.  (Violated: get_operand_value reads the word at    *)
(* every address.)                                                         *)
(***************************************************************************)
C17_OperandRangeChecked == fault # "bus fault"

(***************************************************************************)
(* C18.  -memr A reads the word at A if and only if A < 0x00080000 or      *)
(* 0x20000000 <= A < 0x20080000, and otherwise writes the out-of-range     *)
(* diagnostic and reads nothing.                                           *)
(***************************************************************************)
\* the address with the high half hi lies in flash or in SRAM
InRange(hi) == hi < 8 \/ (hi >= 8192 /\ hi < 8200)

C18_MemrRange ==
  [][\A hi \in MemrHi, lo \in MemrLo :
       UartLine(MemrLine(HexStr(hi, lo)))
         => out' = IF InRange(hi)
                     THEN <<[msg |-> "memr", text |-> NumStr(hi * 65536 + lo)]>>
                     ELSE <<Msg("addr our of  range")>>]_vars

\* -memr 20000000 has read the word
C18_Witness == out = <<[msg |-> "memr", text |-> NumStr(536870912)]>>

(***************************************************************************)
(* C19.  A well-formed -if A COND B ? DESTT : DESTF compares A and B as    *)
(* signed 32-bit values and dispatches one line at most: DESTT, once, when *)
(* the comparison is true and DESTT is not empty, DESTF, once, when it is  *)
(* false and DESTF is not empty; the step is the dispatch of that line     *)
(* and nothing else, and a step with no output and no change when there    *)
(* is no line to dispatch.                                                 *)
(***************************************************************************)
\* the value of an operand
OperandVal(o) == IF o.imm THEN o.val ELSE registers[1]

\* the comparison of the integers x and y
Truth(c, x, y) ==
  CASE c = ">" -> x > y
    [] c = "<" -> x < y
    [] c = "=" -> x = y

C19_IfDispatchesOne ==
  [][\A a \in IfOperands, c \in Conds, b \in IfOperands, r \in IfRests :
       UartLine(IfLine(a.tok, <<c>>, b.tok, r.text))
         => LET dest == IF Truth(c, OperandVal(a), OperandVal(b))
                          THEN r.destt ELSE r.destf
            IN IF dest # <<>> THEN UartLine(dest)
               ELSE out' = <<>> /\ UNCHANGED tables]_vars

\* register 1 is 10 and hi was printed, and nothing else
C19_Witness ==
  /\ registers[1] = 10
  /\ out = <<[msg |-> "print", text |-> <<"h", "i">>]>>

(***************************************************************************)
(* C20.  An -if with an A or a B that is no operand, an unknown COND,      *)
(* fewer than three tokens or no question mark is reported as an error,    *)
(* dispatches no destination and changes no register, script, callback or  *)
(* ticker.  (Violated: atoi takes r and rx for r0, and strtol takes # for  *)
(* #0.)                                                                    *)
(***************************************************************************)
IfErrors ==
  {<<Msg(m)>> : m \in {"Usage: -if", "Bad '?' in -if", "Bad A", "Bad B",
                        "COND?"}}

C20_MalformedIfRejected ==
  [][\A line \in MalformedIf :
       UartLine(line) => out' \in IfErrors /\ UNCHANGED tables]_vars

(***************************************************************************)
(* C21.  -if takes an immediate of the grammar of the register machine,    *)
(* decimal or hexadecimal, as A and as B, with the number it stands for:   *)
(* compared for equality with register 1 it dispatches DESTT when the      *)
(* register holds that number and DESTF when it does not.  (Violated:      *)
(* get_if_operand converts with strtol in base 0, which takes no x or X    *)
(* after the #, and reads a leading 0 as octal.)                           *)
(***************************************************************************)
C21_IfImmediateValue ==
  [][\A i \in IfImms :
       (\/ UartLine(IfLine(Reg(1), <<"=">>, i.tok, Else(PrintHi, PrintLo)))
        \/ UartLine(IfLine(i.tok, <<"=">>, Reg(1), Else(PrintHi, PrintLo))))
         => /\ out' = <<[msg |-> "print",
                         text |-> IF registers[1] = i.val
                                    THEN <<"h", "i">> ELSE <<"l", "o">>]>>
            /\ UNCHANGED tables]_vars

(***************************************************************************)
(* C22.  No script command reads or writes scriptLines outside its 64      *)
(* slots: a slot index outside 0..63 is rejected before the table is       *)
(* touched.  (Violated: cmd_script checks the index only where it shows a  *)
(* slot; write and clear store to scriptLines[idx], and execute reads      *)
(* scriptLines[idx][0], with the index as typed.)                          *)
(***************************************************************************)
C22_SlotIndexChecked == fault # "scriptLines index"

(***************************************************************************)
(* C23.  Write and show are a round trip: -script N w T stores exactly T   *)
(* in slot N and -script N c empties it, and -script N shows the text the  *)
(* slot holds, whole, after the slot number, or shows the slot as empty.   *)
(* (Violated: print_script_line formats the line into 80 bytes, so of a    *)
(* text of more than 74 characters only the first 74 are shown.)           *)
(***************************************************************************)
\* the line shows the text t, and after it nothing but the end of the line
Shows(line, t) ==
  /\ Len(line) >= 5 + Len(t)
  /\ SubSeq(line, 6, 5 + Len(t)) = t
  /\ SubSeq(line, 6 + Len(t), Len(line)) \in {<<>>, <<"\r">>, <<"\r", "\n">>}

C23_WriteShowRoundTrip ==
  [][\A n \in StoreSlots :
       /\ \A t \in StoreTexts(n) :
            UartLine(ScriptWrite(n, t)) => scriptLines'[n] = t
       /\ UartLine(ScriptClear(n)) => scriptLines'[n] = <<>>
       /\ UartLine(ScriptShow(n))
            => /\ Len(out') = 1
               /\ out'[1].msg = "script"
               /\ Shows(out'[1].text,
                        IF scriptLines[n] # <<>> THEN scriptLines[n]
                        ELSE <<"<", "e", "m", "p", "t", "y", ">">>)
               /\ UNCHANGED tables]_vars

(***************************************************************************)
(* C24.  -script N x dispatches the slots N, N+1, ... in ascending order,  *)
(* each once and each to its end before the next slot is looked at, and    *)
(* stops at the first slot that is empty when the loop reaches it, or      *)
(* after slot 63.  With lines that print in the slots from N up to the     *)
(* first empty one, the output is their texts in the order of the slots    *)
(* and nothing is changed; a line in slot N that clears slot N+1 ends the  *)
(* execution after it, a line in slot N that loads the empty slot N+1 is   *)
(* followed by the line it loaded; and from an empty slot N, or from 64,   *)
(* nothing is dispatched.                                                  *)
(***************************************************************************)
\* the first slot from n on that is empty, or 64
FirstEmpty(n) ==
  CHOOSE k \in n .. SCRIPT_LINES :
    /\ k = SCRIPT_LINES \/ scriptLines[k] = <<>>
    /\ \A j \in n .. k - 1 : scriptLines[j] # <<>>

\* what the line -print TEXT writes
Printed(line) == [msg |-> "print", text |-> SubSeq(line, 8, Len(line))]

C24_ExecuteInOrder ==
  [][\A n \in StoreSlots \cup {SCRIPT_LINES} :
       UartLine(ScriptRun(n))
         => LET k == FirstEmpty(n)
            IN /\ (\A j \in n .. k - 1 :
                     scriptLines[j] \in {PrintX, PrintHi, PrintLo})
                    => /\ out' = [j \in 1 .. k - n |->
                                    Printed(scriptLines[n + j - 1])]
                       /\ UNCHANGED tables
               /\ (n < k /\ scriptLines[n] = ScriptClear(n + 1))
                    => /\ out' = <<Msg("cleared")>>
                       /\ scriptLines' = [scriptLines EXCEPT ![n + 1] = <<>>]
               /\ (/\ n < k
                   /\ scriptLines[n] = ScriptWrite(n + 1, PrintHi)
                   /\ scriptLines[n + 2] = <<>>)
                    => /\ out' = <<Msg("loaded"), Printed(PrintHi)>>
                       /\ scriptLines' =
                            [scriptLines EXCEPT ![n + 1] = PrintHi]]_vars

\* the lines of slots 0, 1 and 2 were dispatched, in this order, by one
\* command, with slot 63 loaded and not reached
C24_Witness ==
  /\ out = <<Printed(PrintX), Printed(PrintHi), Printed(PrintLo)>>
  /\ scriptLines[63] # <<>>

(***************************************************************************)
(* C25.  A line whose first token does not start with the marker, or       *)
(* names no command of the table (case-sensitive), adds exactly 1 to the   *)
(* count of unknown commands, is reported, and runs no handler; a line     *)
(* that names a command runs the handler of that command, once, with the   *)
(* rest of the line, and the dispatcher leaves the count alone.  A line of *)
(* blanks only has no token: the dispatcher returns from it with no count, *)
(* no output and no handler.                                               *)
(***************************************************************************)
\* the handler the command table gives for a name
Handler(name, st, args) ==
  CASE name \in OutputOnly -> Emit(st, "text")
    [] name = Word.callback -> cmd_callback(st, args)
    [] name = Word.ticker -> cmd_ticker(st, args)
    [] name = Word.print -> cmd_print(st, args)
    [] name = Word.memr -> cmd_memr(st, args)
    [] name = Word.reg -> cmd_reg(st, args)
    [] name = Word.script -> cmd_script(st, args, 1)
    [] name = Word.rem -> cmd_rem(st, args)
    [] name = Word.if -> cmd_if(st, args, 1)

\* the step counts one unknown command, reports it, and does nothing else
CountsUnknown ==
  /\ errorCount' = [errorCount EXCEPT !.unknown_cmd = @ + 1]
  /\ out' \in {<<Msg("?? unknown")>>,
               <<Msg("?? unknown (expected leading '-')")>>}
  /\ UNCHANGED <<registers, scriptLines, cb, ticker, fault, cbG, tkG>>

\* the step is the handler of the command c, and the count is left alone
RunsHandler(c) ==
  /\ Commit(Handler(c.name, St(<<"uart", 0>>), c.args))
  /\ errorCount' = errorCount

C25_DispatchOneHandler ==
  [][/\ \A line \in UnknownLines : UartLine(line) => CountsUnknown
     /\ \A c \in TableLines : UartLine(TableLine(c)) => RunsHandler(c)
     /\ \A line \in {<<" ">>, <<" ", "\t">>} :
          UartLine(line) => out' = <<>> /\ UNCHANGED tables]_vars

\* an unknown command was counted and reported
C25_Witness ==
  /\ errorCount.unknown_cmd = 1
  /\ out = <<Msg("?? unknown")>>
  /\ cb[1].active

\* the claim as it was made, for every line that is not empty: a line of
\* blanks has no first token that starts with the marker, and is counted
C25_EveryLineDispatched ==
  [][/\ \A line \in UnknownLines \cup {<<" ">>, <<" ", "\t">>} :
          UartLine(line) => CountsUnknown
     /\ \A c \in TableLines : UartLine(TableLine(c)) => RunsHandler(c)]_vars

(***************************************************************************)
(* C27.  A -callback with an index outside 0..2 and a -ticker with an      *)
(* index outside 0..15 are rejected with the diagnostic of the command     *)
(* before anything is armed: no callback and no ticker is changed.         *)
(***************************************************************************)
C27_BadIndexRejected ==
  [][\A line \in BadIndexLines :
       UartLine(line)
         => /\ out' \in {<<Msg("idx0-2")>>, <<Msg("idx0-15")>>}
            /\ UNCHANGED tables]_vars

\* an index was rejected while callback 1 and ticker 1 are armed
C27_Witness ==
  /\ out = <<Msg("idx0-15")>>
  /\ cb[1].active
  /\ ticker[1].active

(***************************************************************************)
(* C28.  A -callback or a -ticker with too few tokens, or with a token     *)
(* that is no number where the index or the count stands, is reported and  *)
(* leaves every callback and every ticker as it was.  (Violated: atoi      *)
(* reads a missing or non-numeric token as 0, so that a missing count      *)
(* disables the entry and a non-numeric index arms entry 0.)               *)
(***************************************************************************)
C28_SyntaxErrorNoChange ==
  [][\A line \in SyntaxLines :
       UartLine(line) => out' # <<>> /\ UNCHANGED <<cb, ticker>>]_vars

(***************************************************************************)
(* C29.  -callback clear IDX disables callback IDX, for IDX 0, 1 and 2,    *)
(* and changes no other callback.  (Violated: cmd_callback knows no word   *)
(* clear; atoi reads it as index 0 and IDX as the count.)                  *)
(***************************************************************************)
C29_ClearDisables ==
  [][\A idx \in CbIdx :
       UartLine(ClearLine(idx))
         => /\ ~cb'[idx].active
            /\ \A k \in CbIdx \ {idx} : cb'[k] = cb[k]]_vars

(***************************************************************************)
(* C26.  Every callback payload, ticker payload and script slot holds a    *)
(* string that ends inside the entry: fewer than 64, 48 and 128 characters *)
(* before the terminator, a longer text being cut when it is written; and  *)
(* the copy of it that a firing or an execution hands to the dispatcher    *)
(* ends inside the buffer it is copied to (128 bytes for a payload, 129    *)
(* for a script line).                                                     *)
(***************************************************************************)
C26_PayloadsTerminated ==
  /\ \A k \in CbIdx :
       /\ Len(cb[k].payload) < MAX_PAYLOAD
       /\ Len(StrCpy(cb[k].payload)) < RX_BUF_SZ
  /\ \A i \in TickerIdx :
       /\ Len(ticker[i].payload) < MAX_TICKER_PAYLOAD
       /\ Len(StrCpy(ticker[i].payload)) < RX_BUF_SZ
  /\ \A n \in 0 .. SCRIPT_LINES - 1 :
       /\ Len(scriptLines[n]) < SCRIPT_LINE_SIZE
       /\ Len(Take(scriptLines[n], SCRIPT_LINE_SIZE)) < SCRIPT_LINE_SIZE + 1

\* callback 0 holds the first 63 characters of the payload of 70, ticker 0
\* the first 47, and the callback has just fired: what it printed is the
\* 56 characters that follow -print in its payload
C26_Witness ==
  /\ cb[0].payload = Take(TextLine(Word.print, 70), MAX_PAYLOAD - 1)
  /\ ticker[0].payload = Take(TextLine(Word.print, 70), MAX_TICKER_PAYLOAD - 1)
  /\ pc = <<"cbPost", 0>>
  /\ out = <<[msg |-> "print", text |-> [i \in 1 .. 56 |-> "a"]]>>

(***************************************************************************)
(* C30.  add, sub, mul, and, ior, xor, max and min set the destination to  *)
(* f(DST, v), v the value of the source as it was before the destination   *)
(* is written, also when the source is the destination itself (register 1  *)
(* = 10, add r1 r1 gives 20), and change no other register; xchg changes   *)
(* its two registers only, each to the value the other held.               *)
(***************************************************************************)
\* r is f(x, v) for the opcode op, in 32-bit arithmetic
IsResult(op, x, v, r) ==
  CASE op = <<"a", "d", "d">> -> SubI32(r, v) = x
    [] op = <<"s", "u", "b">> -> AddI32(r, v) = x
    [] op = <<"m", "u", "l">> -> r = MulI32(x, v)
    [] op = <<"a", "n", "d">> -> r = BitNot(BitOr(BitNot(x), BitNot(v)))
    [] op = <<"i", "o", "r">> -> r = BitNot(BitAnd(BitNot(x), BitNot(v)))
    [] op = <<"x", "o", "r">> -> BitXor(r, v) = x
    [] op = <<"m", "a", "x">> -> r >= x /\ r >= v /\ r \in {x, v}
    [] op = <<"m", "i", "n">> -> r <= x /\ r <= v /\ r \in {x, v}

C30_BinaryOpcodes ==
  [][/\ \A op \in BinOps \ {Word.mov, Word.div, Word.rem}, s \in AluSources :
          UartLine(RegLine(op, Reg(1), s.tok))
            => /\ IsResult(op, registers[1],
                           IF s.reg >= 0 THEN registers[s.reg] ELSE s.val,
                           registers'[1])
               /\ \A n \in DOMAIN registers \ {1} :
                    registers'[n] = registers[n]
     /\ \A a \in {1, 2}, b \in {1, 2} :
          UartLine(RegLine(Word.xchg, Reg(a), Reg(b)))
            => registers' = [registers EXCEPT ![a] = registers[b],
                                              ![b] = registers[a]]]_vars

\* register 1 is 20 by an operation on register 1, and register 2 is loaded
C30_Witness ==
  /\ registers[1] = 20
  /\ registers[2] = 3
  /\ out = <<[msg |-> "R=", text |-> <<"R", "1", "=", "2", "0">>]>>

C32_SeparatorRun ==
  [][\A w \in {<<" ">>, <<" ", " ">>, <<"\t", " ">>},
        a \in {<<>>, Word.x, Words(<<Word.x, PrintX>>)} :
       UartLine(Cmd(Word.print) \o w \o a)
         => out' = <<[msg |-> "print", text |-> a]>>]_vars

(***************************************************************************)
(* C33.  A ticker whose payload arms that same ticker with delay D',       *)
(* period P' and count K' # 0 is, at the end of that firing, the entry of  *)
(* the new configuration after one firing: its count is K' - 1 for K' > 0  *)
(* and K' for K' < 0, it is inactive exactly when K' = 1, its countdown is *)
(* P' while it is active, and its delay, period and payload are those of   *)
(* the new configuration.                                                  *)
(***************************************************************************)
C33_RearmInFiring ==
  [][\A i \in TickerIdx :
       (/\ pc = <<"tkPost", i>>
        /\ tkG[i].self
        /\ tkG[i].fired = 0
        /\ TkPost(i))
         => \E r \in Rearms :
              /\ tkG[i].K = r.k
              /\ ticker'[i].count = (IF r.k > 0 THEN r.k - 1 ELSE r.k)
              /\ ticker'[i].active = (r.k # 1)
              /\ ticker'[i].active => ticker'[i].ticks_left = r.p
              /\ ticker'[i].delay_ticks = r.d
              /\ ticker'[i].period_ticks = r.p
              /\ ticker'[i].payload = PrintX]_vars

\* ticker 0 armed itself with delay 2, period 3 and count 3, and that firing
\* is over
C33_Witness ==
  /\ pc = <<"tkEntry", 1>>
  /\ tkG[0].self
  /\ tkG[0].fired = 0
  /\ ticker[0] = [active |-> TRUE, delay_ticks |-> 2, period_ticks |-> 3,
                  count |-> 2, payload |-> PrintX, ticks_left |-> 3]

(***************************************************************************)
(* C34.  One observed ticker flag is one sweep, whatever the number of     *)
(* ticker interrupts since the flag was last cleared, one or more: the     *)
(* sweep reaches each entry once, in ascending order, takes exactly 1 from *)
(* the nonzero countdown of an entry that is active when it is reached,    *)
(* leaves an inactive entry alone, and fires the entry whose countdown is  *)
(* then zero.  Stated for the part of a sweep from entry i up to the next  *)
(* firing, of the entry j, or up to the end of the table.                  *)
(***************************************************************************)
C34_OneAdvancePerFlag ==
  [][\A i \in 0 .. MAX_TICKERS :
       (pc = <<"tkEntry", i>> /\ TkSweep(i))
         => With(IF pc'[1] = "tkPost" THEN pc'[2] ELSE MAX_TICKERS, LAMBDA j :
              /\ polled.f = "tickerFlag"
              /\ polled.n >= 1
              /\ j >= i
              /\ \A m \in i .. j - 1 :
                   IF ticker[m].active
                     THEN /\ ticker[m].ticks_left \notin {0, 1}
                          /\ ticker'[m] = [ticker[m] EXCEPT
                                             !.ticks_left = @ - 1]
                     ELSE ticker'[m] = ticker[m]
              /\ j < MAX_TICKERS
                   => /\ ticker[j].active
                      /\ ticker[j].ticks_left \in {0, 1}
                      /\ Count(<<"tk", j>>) + 1 = Len(SelectSeq(log',
                           LAMBDA x : x = <<"tk", j>>)))]_vars

\* two or more ticker interrupts had arrived when the flag was observed, and
\* the sweep has taken 1 from the countdown of ticker 0, armed with delay 2
C34_Witness ==
  /\ pc = <<"uart", 0>>
  /\ polled = [f |-> "tickerFlag", n |-> 2]
  /\ ticker[0].active
  /\ ticker[0].delay_ticks = 2
  /\ ticker[0].ticks_left = 1
  /\ tkG[0].ticks = 1
  /\ tkG[0].fired = 0

(***************************************************************************)
(* C35.  A ticker that the payload of another ticker armed during a sweep  *)
(* is neither advanced nor fired in that sweep, whatever its index: the    *)
(* rest of the sweep leaves its entry as it was armed.                     *)
(***************************************************************************)
\* ticker m was armed by the payload of another ticker fired in the sweep
\* that is under way, and no sweep has reached it since
ArmedInSweep(m) ==
  /\ tkG[m].mid
  /\ ~tkG[m].self
  /\ tkG[m].ticks = 0
  /\ tkG[m].fired = 0
  /\ \E j \in TickerIdx \ {m} : Count(<<"tk", j>>) > 0

C35_ArmedInSweepWaits ==
  [][\A i \in 0 .. MAX_TICKERS, m \in TickerIdx :
       (pc = <<"tkEntry", i>> /\ ArmedInSweep(m) /\ TkSweep(i))
         => ticker'[m] = ticker[m] /\ pc' # <<"tkPost", m>>]_vars

(***************************************************************************)
(* C36. The payload of a callback is dispatched only in response to an     *)
(* interrupt of its flag that occurred after the entry was configured: in  *)
(* every step of the main loop that dispatches the payload of callback k,  *)
(* an interrupt of the flag of k has occurred since the -callback command  *)
(* that armed k.                                                           *)
(***************************************************************************)
C36_FiresOnLaterInterrupt ==
  [][\A k \in CbIdx :
       (pc = <<"cbSvc", k>> /\ cb[k].active /\ CbSvc(k)) => cbG[k].fresh]_vars

(***************************************************************************)
(* C37. In every reachable state an active callback has remaining # 0 and  *)
(* an active ticker has count # 0: an entry with no repeats left is never  *)
(* left armed, whatever lines armed, disabled or reconfigured it and       *)
(* however often it fired.                                                 *)
(***************************************************************************)
C37_ArmedHasRepeats ==
  /\ \A k \in CbIdx : cb[k].active => cb[k].remaining # 0
  /\ \A i \in TickerIdx : ticker[i].active => ticker[i].count # 0

\* callback 0 and ticker 0 were armed with one repeat, fired, and are off
C37_Witness ==
  /\ cbG[0].K = 1 /\ cbG[0].fired = 1
  /\ cb[0].remaining = 0 /\ ~cb[0].active
  /\ tkG[0].K = 1 /\ tkG[0].fired = 1
  /\ ticker[0].count = 0 /\ ~ticker[0].active

(***************************************************************************)
(* C38. -if copies its clauses into destt and destf, of 64 bytes each,     *)
(* without a write at an index above 63, whatever the length of its        *)
(* argument and with or without a ':': no step of the program is a write   *)
(* beyond the end of destt.                                                *)
(***************************************************************************)
C38_IfBuffersBounded == fault # "destt overflow"

(***************************************************************************)
(* The HWK4 variant: the queue, the handlers of -callback and -ticker,     *)
(* the dispatcher, the interrupt routines and the main loop.               *)
(***************************************************************************)
\* a binding that is evaluated once, before F is applied
Strict(v, F(_)) == CHOOSE r \in {F(x) : x \in {v}} : TRUE

Hwk4Emit(h, m) == [h EXCEPT !.out = Append(@, Msg(m))]

Hwk4Fault(h, f) == IF h.fault = "" THEN [h EXCEPT !.fault = f] ELSE h

\* a faulty cbq_push: the event is stored whether or not the queue is full
cbq_pushAlways(h, idx) ==
  [h EXCEPT !.cbq[h.cbq_head] = idx,
            !.cbq_head = (h.cbq_head + 1) % CBQ_SZ,
            !.fifo = Append(@, idx)]

\* cbq_push
cbq_push(h, idx) ==
  With((h.cbq_head + 1) % CBQ_SZ, LAMBDA next :
    IF next # h.cbq_tail
      THEN [h EXCEPT !.cbq[h.cbq_head] = idx,
                     !.cbq_head = next,
                     !.fifo = Append(@, idx)]
      ELSE h)

\* while (isdigit(*args) || *args == '-') ++args;
RECURSIVE SkipDigitsMinus(_)
SkipDigitsMinus(s) ==
  IF s # <<>> /\ (isdigit(Head(s)) \/ Head(s) = "-")
    THEN SkipDigitsMinus(Tail(s))
    ELSE s

\* cmd_callback of HWK4
cmd_callback4(h, args) ==
  With(IF args.null THEN <<>> ELSE SkipSpaces(args.s), LAMBDA a0 :
    IF a0 = <<>> THEN Hwk4Emit(h, "Callback info")
    ELSE IF Take(a0, 5) = <<"c", "l", "e", "a", "r">>
      THEN With(atoi(Drop(a0, 5)), LAMBDA idx :
             IF idx >= 0 /\ idx < MAX_CALLBACKS
               THEN Hwk4Emit([h EXCEPT !.callbacks[idx].active = FALSE,
                                       !.callbacks[idx].payload = <<>>],
                             "Cleared callback")
               ELSE h)
    ELSE
      With(atoi(a0), LAMBDA idx :
      With(SkipSpaces(SkipDigits(a0)), LAMBDA a1 :
      With(atoi(a1), LAMBDA count :
      With(SkipSpaces(SkipDigitsMinus(a1)), LAMBDA a2 :
        IF idx < 0 \/ idx >= MAX_CALLBACKS
          THEN Hwk4Emit(h, "callback idx 0-2")
        ELSE IF a2 = <<>> \/ Head(a2) # "-"
          THEN Hwk4Emit(h, "usage: -callback")
        ELSE Hwk4Emit([h EXCEPT !.callbacks[idx] =
                         [active |-> TRUE, count |-> count,
                          payload |-> StrNCpy(Tail(a2), 48)]],
                      "callback"))))))

\* cmd_ticker of HWK4
cmd_ticker4(h, args) ==
  With(IF args.null THEN <<>> ELSE SkipSpaces(args.s), LAMBDA a0 :
    IF a0 = <<>> THEN Hwk4Emit(h, "Ticker info")
    ELSE IF Take(a0, 5) = <<"c", "l", "e", "a", "r">>
      THEN With(atoi(Drop(a0, 5)), LAMBDA idx :
             IF idx >= 0 /\ idx < MAX_TICKERS
               THEN Hwk4Emit([h EXCEPT !.tickers[idx].active = FALSE,
                                       !.tickers[idx].payload = <<>>],
                             "Cleared ticker")
               ELSE h)
    ELSE
      With(atoi(a0), LAMBDA idx :
      With(SkipSpaces(SkipDigits(a0)), LAMBDA a1 :
      With(atoi(a1), LAMBDA delay :
      With(SkipSpaces(SkipDigits(a1)), LAMBDA a2 :
      With(atoi(a2), LAMBDA period :
      With(SkipSpaces(SkipDigits(a2)), LAMBDA a3 :
      With(atoi(a3), LAMBDA count :
      With(SkipSpaces(SkipDigitsMinus(a3)), LAMBDA a4 :
        IF idx < 0 \/ idx >= MAX_TICKERS
          THEN Hwk4Emit(h, "ticker idx 0-15")
        ELSE IF a4 = <<>> \/ Head(a4) # "-"
          THEN Hwk4Emit(h, "usage: -ticker")
        ELSE Hwk4Emit([h EXCEPT !.tickers[idx] =
                         [active |-> TRUE, count |-> count, delay |-> delay,
                          period |-> period, ticks_left |-> delay,
                          payload |-> StrNCpy(Tail(a4), 48)]],
                      "ticker"))))))))))

\* handleLine of HWK4; the commands that touch neither table are one case
handleLine4(h, line) ==
  With(strtok2(line), LAMBDA t :
    IF t.cmd.null THEN h
    ELSE IF Head(t.cmd.s) # "-"
      THEN Hwk4Emit([h EXCEPT !.errorCount = @ + 1],
                    "?? unknown (expected leading '-')")
    ELSE
      With(Tail(t.cmd.s), LAMBDA cmd :
      With(IF ~t.args.null /\ Head(t.args.s) = "-"
             THEN Ptr(Tail(t.args.s)) ELSE t.args, LAMBDA args :
        IF cmd = Word.print
          THEN [h EXCEPT !.out =
                  Append(@, [msg |-> "print",
                             text |-> IF args.null THEN <<>> ELSE args.s])]
        ELSE IF cmd = Word.callback THEN cmd_callback4(h, args)
        ELSE IF cmd = Word.ticker THEN cmd_ticker4(h, args)
        ELSE IF cmd \in {Word.help, Word.about, Word.memr, Word.gpio,
                         Word.timer, Word.error}
          THEN Hwk4Emit(h, "other")
        ELSE Hwk4Emit([h EXCEPT !.errorCount = @ + 1],
                      "?? unknown command"))))

\* the payload of event e is handed to handleLine, if it is not empty
Hwk4Dispatch(h, e, payload) ==
  With(StrNCpy(payload, 64), LAMBDA cmdline :
    IF cmdline # <<>>
      THEN [handleLine4(h, cmdline) EXCEPT !.dispatched[e] = @ + 1]
      ELSE h)

\* the end of exec_callback: if (callbacks[idx].count > 0) { ... }
CountDown(c) ==
  IF c.count > 0
    THEN [c EXCEPT !.count = @ - 1,
                   !.active = IF c.count - 1 = 0 THEN FALSE ELSE @]
    ELSE c

\* exec_callback; callbacks[idx] with idx outside the table is undefined
exec_callback(h, idx) ==
  IF idx < 0 \/ idx >= MAX_CALLBACKS THEN Hwk4Fault(h, "callbacks index")
  ELSE IF ~h.callbacks[idx].active THEN h
  ELSE Strict(Hwk4Dispatch(h, idx, h.callbacks[idx].payload), LAMBDA h1 :
         [h1 EXCEPT !.callbacks[idx] = CountDown(@)])

\* the body of the loop of tickerTimerCb for ticker i
TickerTick(h, i) ==
  With(h.tickers[i], LAMBDA t :
  With(IF t.ticks_left > 0 THEN t.ticks_left - 1 ELSE 0, LAMBDA left :
  With(IF t.count > 0 THEN t.count - 1 ELSE t.count, LAMBDA count :
    IF ~t.active THEN h
    ELSE IF left # 0 THEN [h EXCEPT !.tickers[i].ticks_left = left]
    ELSE [cbq_push(h, CBQ_TICKER_BASE + i) EXCEPT
            !.fired[CBQ_TICKER_BASE + i] = @ + 1,
            !.tickers[i] = [t EXCEPT !.count = count,
                                     !.active = (count # 0),
                                     !.ticks_left = IF count = 0 THEN left
                                                    ELSE t.period]])))

\* for (i = 0; i < MAX_TICKERS; ++i) ..., from ticker i on
RECURSIVE TickerSweep(_, _)
TickerSweep(h, i) ==
  IF i >= MAX_TICKERS THEN h
  ELSE Strict(TickerTick(h, i), LAMBDA h1 : TickerSweep(h1, i + 1))

\* timerCb, sw1Cb, sw2Cb: the interrupt of callback k
CallbackCb(h, k) ==
  IF h.callbacks[k].active
    THEN [cbq_push(h, k) EXCEPT !.fired[k] = @ + 1]
    ELSE h

\* a step of the HWK4 variant: the program above is not running
Hwk4Step(h) ==
  /\ hwk4' = h
  /\ UNCHANGED <<tables, flag, pc, out, log, pending, arrived, polled, edit>>

\* the interrupts: timerCb, sw1Cb and sw2Cb
Hwk4Isr(k) ==
  /\ hwk4.irqs < MaxIrqs
  /\ Hwk4Step([CallbackCb(hwk4, k) EXCEPT !.irqs = @ + 1])

\* the interrupt of the ticker timer: tickerTimerCb
Hwk4TickerIsr ==
  /\ hwk4.irqs < MaxIrqs
  /\ Hwk4Step([TickerSweep(hwk4, 0) EXCEPT !.irqs = @ + 1])

\* UART_read(gUart,&ch,1) returns
Hwk4Read(ch) ==
  /\ hwk4.pc = "read" /\ hwk4.fault = ""
  /\ Hwk4Step([hwk4 EXCEPT !.ch = ch, !.pc = "pop", !.out = <<>>])

\* cbq_pop: int val = -1; if (cbq_head != cbq_tail) ...
Hwk4PopTest ==
  /\ hwk4.pc = "pop" /\ hwk4.fault = ""
  /\ Hwk4Step(IF hwk4.cbq_head # hwk4.cbq_tail
                THEN [hwk4 EXCEPT !.val = 0 - 1, !.pc = "popVal", !.out = <<>>]
                ELSE [hwk4 EXCEPT !.val = 0 - 1, !.cbidx = 0 - 1,
                                  !.pc = "key", !.out = <<>>])

\* cbq_pop: val = cbq[cbq_tail];
Hwk4PopVal ==
  /\ hwk4.pc = "popVal" /\ hwk4.fault = ""
  /\ Hwk4Step([hwk4 EXCEPT !.val = hwk4.cbq[hwk4.cbq_tail], !.pc = "popTail"])

\* cbq_pop: cbq_tail = (cbq_tail + 1) % CBQ_SZ; return val;
Hwk4PopTail ==
  /\ hwk4.pc = "popTail" /\ hwk4.fault = ""
  /\ Hwk4Step([hwk4 EXCEPT !.cbq_tail = (@ + 1) % CBQ_SZ,
                           !.cbidx = hwk4.val,
                           !.fifo = IF @ = <<>> THEN @ ELSE Tail(@),
                           !.pc = "event"])

\* the body of while ((cbidx = cbq_pop()) != -1)
Hwk4Event ==
  /\ hwk4.pc = "event" /\ hwk4.fault = ""
  /\ Hwk4Step(
       With(hwk4.cbidx, LAMBDA e :
         [(IF e >= CBQ_TICKER_BASE /\ e < CBQ_TICKER_BASE + MAX_TICKERS
             THEN Hwk4Dispatch(hwk4, e, hwk4.tickers[e - CBQ_TICKER_BASE].payload)
             ELSE exec_callback(hwk4, e))
          EXCEPT !.pc = "pop"]))

\* the character read is handled: a CR hands the line it ends to handleLine
Hwk4Key ==
  /\ hwk4.pc = "key" /\ hwk4.fault = ""
  /\ Hwk4Step([(IF hwk4.ch # <<>> THEN handleLine4(hwk4, hwk4.ch) ELSE hwk4)
               EXCEPT !.pc = "read", !.ch = <<>>])

(***************************************************************************)
(* SpecHwk4: the HWK4 variant.  Before the first interrupt the timer       *)
(* callback is armed with the count 2 and tickers 0 and 1 are armed for    *)
(* ever, to fire on every tick; keys that end no line are pressed at any   *)
(* time.  The timer and the ticker timer interrupt MaxIrqs times in all,   *)
(* at any point of the main loop; an interrupt routine runs to its end     *)
(* before the main loop or another interrupt routine goes on.              *)
(***************************************************************************)
SpecHwk4 ==
  /\ Init
  /\ [][\/ Hwk4Isr(0)
        \/ Hwk4TickerIsr
        \/ Hwk4Read(<<>>)
        \/ \E ch \in {CallbackLine(0, 2, PrintX),
                      TickerLine(0, 0, 1, 0 - 1, PrintX),
                      TickerLine(1, 0, 1, 0 - 1, PrintX)} :
             (hwk4.irqs = 0 /\ Hwk4Read(ch))
        \/ Hwk4PopTest
        \/ Hwk4PopVal
        \/ Hwk4PopTail
        \/ Hwk4Event
        \/ Hwk4Key]_vars

\* the events in cbq from cbq_tail up to cbq_head, oldest first
Queued(h) ==
  [j \in 1 .. ((h.cbq_head + CBQ_SZ) - h.cbq_tail) % CBQ_SZ |->
     h.cbq[(h.cbq_tail + j - 1) % CBQ_SZ]]

(***************************************************************************)
(* C39. In the HWK4 variant the queue holds at most CBQ_SZ - 1 = 7 events  *)
(* in every reachable state; cbq_pop returns the events in the order in    *)
(* which cbq_push stored them, each once: the queue is at all times the    *)
(* sequence of the events stored and not yet returned, and the value       *)
(* cbq_pop is about to return is the oldest of them; cbq_pop on an empty   *)
(* queue returns -1 and changes nothing of the queue.                      *)
(***************************************************************************)
C39_QueueIsFifo ==
  /\ [](/\ Len(hwk4.fifo) <= CBQ_SZ - 1
        /\ Queued(hwk4) = hwk4.fifo
        /\ hwk4.pc = "popTail"
             => hwk4.fifo # <<>> /\ hwk4.val = Head(hwk4.fifo)
        /\ hwk4.pc = "event" => hwk4.cbidx \in Events)
  /\ [][(hwk4.pc = "pop" /\ hwk4.cbq_head = hwk4.cbq_tail /\ Hwk4PopTest)
          => /\ hwk4'.cbidx = 0 - 1
             /\ hwk4'.pc = "key"
             /\ hwk4'.cbq = hwk4.cbq
             /\ hwk4'.cbq_head = hwk4.cbq_head
             /\ hwk4'.cbq_tail = hwk4.cbq_tail
             /\ hwk4.fifo = <<>> /\ hwk4'.fifo = <<>>]_vars

\* the queue is full and has wrapped, and cbq_pop is returning an event
C39_Witness ==
  /\ Len(hwk4.fifo) = CBQ_SZ - 1
  /\ hwk4.cbq_tail > hwk4.cbq_head
  /\ hwk4.pc = "popTail"

\* how many events e wait in the queue or are being dispatched
Waiting(h, e) ==
  Cardinality({j \in 1 .. Len(Queued(h)) : Queued(h)[j] = e})
    + (IF h.pc = "event" /\ h.cbidx = e THEN 1 ELSE 0)

(***************************************************************************)
(* C40. In the HWK4 variant no firing is lost: in every reachable state,   *)
(* for every callback and every ticker, each firing its interrupt routine  *)
(* has accounted for (the event handed to cbq_push, the count of a ticker  *)
(* decremented) either has had its payload dispatched by the main loop,    *)
(* once, or still waits in the queue for its dispatch.                     *)
(***************************************************************************)
C40_NoFiringLost ==
  \A e \in Events :
    hwk4.fired[e] = hwk4.dispatched[e] + Waiting(hwk4, e)

=============================================================================
